---- MODULE Spec2Model ----
(***************************************************************************)
(* Ticket_Graph retrieval engine: the FAISS-backed VectorStore             *)
(* (backend/retrieval/vector_store.py) and its snapshot files, the         *)
(* similarity edges of the ticket graph (backend/graph/build_graph.py)     *)
(* and the retrieval pipeline over both (backend/llm/answer.py).           *)
(*                                                                         *)
(* Numbers are fixed point: a coordinate c stands for c/One, a score s     *)
(* (an inner product of two unit vectors) for s/(One*One).  The input      *)
(* vectors are chosen with integer norms, so normalisation is exact.       *)
(***************************************************************************)
EXTENDS Integers, Sequences, FiniteSets, TLC

VARIABLES
    store,      \* the VectorStore object: index, metadatas, texts, vectors, dimension
    faissFile,  \* "<index_path>.faiss" on disk: <<>> when absent, <<content>> otherwise
    metaFile,   \* "<index_path>.meta.pkl" on disk: <<>> when absent, <<content>> otherwise
    lastCall,   \* the last call made: operation, arguments, outcome
    firstAt,    \* history: the first entry this store object ever held at each offset
    saved,      \* history: the store as it was at the last whole persist, <<>> before
    pc,         \* position of the writer inside add / persist ("idle" between calls)
    frame,      \* local variables of the call in progress
    graph,      \* the Neo4j database: Ticket nodes and SIMILAR_TO relationships
    queries     \* history: the queries the call in progress ran against Neo4j, in order

vars == <<store, faissFile, metaFile, lastCall, firstAt, saved, pc, frame, graph, queries>>

\* The Neo4j side, which the calls on the VectorStore leave alone.
neo4j == <<graph, queries>>

----------------------------------------------------------------------------
\* Bounds of the model.
MaxBatch == 2      \* longest batch handed to one add call
MaxTotal == 2      \* adds are tried only while the index stays within this size
MaxK == 2          \* largest k handed to search
MaxTickets == 3    \* most tickets in one mapping of ticket embeddings
MaxTopK == 2       \* largest top_k handed to connect_similar_tickets
MaxSimilar == 2    \* largest max_similar_tickets handed to retrieve_graph_context

\* 1.0 in fixed point (fifths).
One == 5

Dims == {2, 3}

Min(a, b) == IF a < b THEN a ELSE b

----------------------------------------------------------------------------
\* numpy helpers

RECURSIVE DotFrom(_, _, _)
DotFrom(a, b, i) ==
    IF i > Len(a) THEN 0 ELSE a[i] * b[i] + DotFrom(a, b, i + 1)

\* np.dot on two rows of equal width.
Dot(a, b) == DotFrom(a, b, 1)

\* The largest r in lo..hi-1 with r * r <= n.
RECURSIVE Bisect(_, _, _)
Bisect(n, lo, hi) ==
    IF hi - lo <= 1 THEN lo
    ELSE LET mid == (lo + hi) \div 2
         IN  IF mid * mid <= n THEN Bisect(n, mid, hi) ELSE Bisect(n, lo, mid)

\* The integer square root: r with r * r <= n < (r + 1) * (r + 1).
ISqrt(n) == Bisect(n, 0, n + 1)

\* The float nan, as a coordinate or a norm.
NaN == -999

IsNaN(v) == \E j \in 1..Len(v) : v[j] = NaN

\* np.linalg.norm of one row, in fixed point; nan when a coordinate is nan.
Norm(v) == IF IsNaN(v) THEN NaN ELSE ISqrt(Dot(v, v))

\* v / norm.  A row of norm 0 is all zeros, and numpy's 0.0 / 0.0 is nan
\* (a RuntimeWarning, no exception).
Divide(v, n) ==
    IF n = 0 THEN [j \in 1..Len(v) |-> NaN]
    ELSE [j \in 1..Len(v) |-> (v[j] * One) \div n]

\* np.allclose(norms, 1.0, atol=1e-5) over all the rows of the batch.
AllClose(emb) == \A i \in 1..Len(emb) : Norm(emb[i]) = One

\* add: the whole batch is divided by its norms when any row is off unit norm.
NormalizeRows(emb) ==
    IF AllClose(emb) THEN emb
    ELSE [i \in 1..Len(emb) |-> Divide(emb[i], Norm(emb[i]))]

\* embeddings.shape[1]
Width(emb) == Len(emb[1])

----------------------------------------------------------------------------
\* Python dicts with string keys and values.

EmptyDict == [k \in {} |-> ""]

HasKey(d, k) == k \in DOMAIN d

SetKey(d, k, v) == [x \in (DOMAIN d) \cup {k} |-> IF x = k THEN v ELSE d[x]]

----------------------------------------------------------------------------
\* faiss.IndexFlatIP

NewIndex(dim) == [d |-> dim, xb |-> <<>>]

NTotal(ix) == Len(ix.xb)

\* Mutant: the new rows take the first offsets.
IndexAddPrepend(ix, rows) == [ix EXCEPT !.xb = rows \o @]

\* index.add(rows): rows are appended, the next offsets are theirs.
IndexAdd(ix, rows) == [ix EXCEPT !.xb = @ \o rows]

\* The slot faiss returns when fewer than k vectors exist.
EmptySlot == [score |-> 0 - One * One * One, idx |-> -1]

\* Mutant: the smallest inner products first.
BetterAscending(scores, i, j) ==
    scores[i] < scores[j] \/ (scores[i] = scores[j] /\ i <= j)

\* The order of faiss's result heap: larger score first, lower offset on a tie.
Better(scores, i, j) ==
    scores[i] > scores[j] \/ (scores[i] = scores[j] /\ i <= j)

RECURSIVE TopK(_, _, _)
TopK(scores, k, taken) ==
    IF k <= 0 THEN <<>>
    ELSE LET cand == (DOMAIN scores) \ taken
         IN  IF cand = {} THEN <<EmptySlot>> \o TopK(scores, k - 1, taken)
             ELSE LET best == CHOOSE i \in cand : \A j \in cand : Better(scores, i, j)
                  IN  <<[score |-> scores[best], idx |-> best - 1]>>
                          \o TopK(scores, k - 1, taken \cup {best})

\* index.search(q, k): the k largest inner products, largest first.
IndexSearch(ix, q, k) ==
    TopK([i \in 1..NTotal(ix) |-> Dot(q, ix.xb[i])], k, {})

RECURSIVE Flatten(_)
Flatten(rows) == IF rows = <<>> THEN <<>> ELSE Head(rows) \o Flatten(Tail(rows))

\* faiss.write_index: dimension, count and the vectors as one flat array.
WriteIndex(ix) == [d |-> ix.d, ntotal |-> NTotal(ix), codes |-> Flatten(ix.xb)]

\* Mutant: the vectors are read back last first.
ReadIndexReversed(f) ==
    [d |-> f.d,
     xb |-> [i \in 1..f.ntotal |->
               SubSeq(f.codes, (f.ntotal - i) * f.d + 1, (f.ntotal - i + 1) * f.d)]]

\* faiss.read_index
ReadIndex(f) ==
    [d |-> f.d,
     xb |-> [i \in 1..f.ntotal |-> SubSeq(f.codes, (i - 1) * f.d + 1, i * f.d)]]

----------------------------------------------------------------------------
\* VectorStore

\* Mutant: the texts survive the reset.
InitIndexKeepTexts(S) ==
    [S EXCEPT !.index = NewIndex(S.dimension), !.metadatas = <<>>, !.vectors = <<>>]

\* _init_index
InitIndex(S) ==
    [S EXCEPT !.index = NewIndex(S.dimension),
              !.metadatas = <<>>, !.texts = <<>>, !.vectors = <<>>]

\* __init__
NewStore(dim) ==
    [index |-> NewIndex(dim), metadatas |-> <<>>, texts |-> <<>>,
     vectors |-> <<>>, dimension |-> dim]

\* __len__
StoreLen(S) == NTotal(S.index)

\* add, lines 77-91: the checks made before anything is touched.
AddCheck(S, texts, emb) ==
    IF Len(texts) = 0 THEN "return"
    ELSE IF Len(emb) # Len(texts) THEN "ValueError"
    ELSE IF Width(emb) # S.dimension THEN "ValueError"
    ELSE "proceed"

\* add, lines 100-101
AddIndex(S, rows) == [S EXCEPT !.index = IndexAdd(@, rows)]

\* add, line 104
AddTexts(S, texts) == [S EXCEPT !.texts = @ \o texts]

\* add, line 105
AddVectors(S, rows) == [S EXCEPT !.vectors = @ \o rows]

\* add, lines 107-108: the list the loop runs over, as references into a heap
\* of dict objects.  [{}] * n is n references to ONE dict.
MetaObjects(texts, metas) ==
    IF metas.given
    THEN [heap |-> metas.list, refs |-> [i \in 1..Len(metas.list) |-> i]]
    ELSE [heap |-> <<EmptyDict>>, refs |-> [i \in 1..Len(texts) |-> 1]]

RECURSIVE EnsureTextFrom(_, _, _, _)
EnsureTextFrom(heap, refs, texts, i) ==
    IF i > Len(refs) THEN heap
    ELSE LET o == refs[i]
             h == IF HasKey(heap[o], "text") THEN heap
                  ELSE [heap EXCEPT ![o] = SetKey(@, "text", texts[i])]
         IN  EnsureTextFrom(h, refs, texts, i + 1)

\* add, lines 116-118: the loop, then the list as it reads afterwards.
EnsureText(texts, metas) ==
    LET mo == MetaObjects(texts, metas)
        heap == EnsureTextFrom(mo.heap, mo.refs, texts, 1)
    IN  [i \in 1..Len(mo.refs) |-> heap[mo.refs[i]]]

\* add, lines 107-120
AddMetas(S, texts, metas) ==
    IF metas.given /\ Len(metas.list) # Len(texts)
    THEN [status |-> "ValueError", store |-> S]
    ELSE [status |-> "ok",
          store |-> [S EXCEPT !.metadatas = @ \o EnsureText(texts, metas)]]

\* add, lines 77-101: how far the call gets before it touches the store.
\* faiss refuses rows that are not as wide as the index.
AddEntry(S, texts, emb) ==
    LET chk == AddCheck(S, texts, emb)
    IN  IF chk = "return" THEN "ok"
        ELSE IF chk = "ValueError" THEN "ValueError"
        ELSE IF Width(NormalizeRows(emb)) # S.index.d THEN "AssertionError"
        ELSE "proceed"

\* add, the whole call.
AddCall(S, texts, emb, metas) ==
    LET entry == AddEntry(S, texts, emb)
        rows == NormalizeRows(emb)
    IN  IF entry # "proceed" THEN [status |-> entry, store |-> S]
        ELSE AddMetas(AddVectors(AddTexts(AddIndex(S, rows), texts), rows),
                      texts, metas)

\* search, lines 162-164: what the loop keeps of a hit.
Kept(hit, ms) == hit.idx # -1 /\ ~(ms # <<>> /\ hit.score < ms[1])

\* search, lines 156-173
BuildResults(S, hits, ms) ==
    LET keep(h) == Kept(h, ms)
        kept == SelectSeq(hits, keep)
    IN  IF \E i \in 1..Len(kept) :
               \/ kept[i].idx + 1 > Len(S.texts)
               \/ kept[i].idx + 1 > Len(S.metadatas)
        THEN [status |-> "IndexError", out |-> <<>>]
        ELSE [status |-> "ok",
              out |-> [i \in 1..Len(kept) |->
                         [text |-> S.texts[kept[i].idx + 1],
                          metadata |-> S.metadatas[kept[i].idx + 1],
                          score |-> kept[i].score,
                          index |-> kept[i].idx]]]

\* search, lines 143-146
NormalizeQuery(q) == IF Norm(q) = One THEN q ELSE Divide(q, Norm(q))

\* search, the whole call.  faiss refuses k < 1 and a query of another width.
SearchCall(S, q, k, ms) ==
    IF StoreLen(S) = 0 THEN [status |-> "ok", out |-> <<>>]
    ELSE LET qn == NormalizeQuery(q)
             kk == Min(k, StoreLen(S))
         IN  IF kk < 1 \/ Len(qn) # S.index.d
             THEN [status |-> "AssertionError", out |-> <<>>]
             ELSE BuildResults(S, IndexSearch(S.index, qn, kk), ms)

\* persist, lines 237-242: what pickle.dump writes.
Pickle(S) ==
    [ok |-> TRUE, metadatas |-> S.metadatas, texts |-> S.texts,
     vectors |-> S.vectors, dimension |-> S.dimension]

\* persist, line 236: the file as open(meta_file, 'wb') leaves it.
Truncated == [ok |-> FALSE]

\* Mutant: a load that finds no snapshot empties the store.
LoadCallResetOnMiss(S, ff, mf) ==
    IF ff = <<>> \/ mf = <<>> THEN [status |-> "False", store |-> InitIndex(S)]
    ELSE LET S1 == [S EXCEPT !.index = ReadIndex(ff[1])]
             data == mf[1]
         IN  IF ~data.ok THEN [status |-> "False", store |-> InitIndex(S1)]
             ELSE [status |-> "True",
                   store |-> [S1 EXCEPT !.metadatas = data.metadatas,
                                        !.texts = data.texts,
                                        !.vectors = data.vectors,
                                        !.dimension = data.dimension]]

\* load, the whole call on the files ff and mf.
LoadCall(S, ff, mf) ==
    IF ff = <<>> \/ mf = <<>> THEN [status |-> "False", store |-> S]
    ELSE LET S1 == [S EXCEPT !.index = ReadIndex(ff[1])]
             data == mf[1]
         IN  IF ~data.ok THEN [status |-> "False", store |-> InitIndex(S1)]
             ELSE [status |-> "True",
                   store |-> [S1 EXCEPT !.metadatas = data.metadatas,
                                        !.texts = data.texts,
                                        !.vectors = data.vectors,
                                        !.dimension = data.dimension]]

----------------------------------------------------------------------------
\* Neo4jGraph

\* A database without nodes.  tickets maps the id of each Ticket node to its
\* properties, similar maps <<from, to>> of each SIMILAR_TO relationship to
\* its, sections maps the id of each Section node to its text and its ticket;
\* projection is the graph of the GDS catalog, <<>> while there is none.
EmptyGraph ==
    [tickets |-> [t \in {} |-> <<>>], similar |-> [e \in {} |-> <<>>],
     sections |-> [s \in {} |-> <<>>], projection |-> <<>>]

\* MERGE (t1)-[r:SIMILAR_TO]->(t2) SET r.score, r.method
MergeSimilar(similar, e, method) ==
    [p \in (DOMAIN similar) \cup {<<e.from, e.to>>} |->
        IF p = <<e.from, e.to>> THEN [score |-> e.score, method |-> method]
        ELSE similar[p]]

\* create_similarity_edges: one row for each record whose two tickets exist.
RECURSIVE CreateSimilarityEdges(_, _, _)
CreateSimilarityEdges(G, sims, method) ==
    IF sims = <<>> THEN [graph |-> G, count |-> 0]
    ELSE LET e == Head(sims)
             matched == e.from \in DOMAIN G.tickets /\ e.to \in DOMAIN G.tickets
             G1 == IF matched THEN [G EXCEPT !.similar = MergeSimilar(@, e, method)] ELSE G
             r == CreateSimilarityEdges(G1, Tail(sims), method)
         IN  [graph |-> r.graph, count |-> r.count + (IF matched THEN 1 ELSE 0)]

----------------------------------------------------------------------------
\* connect_similar_tickets.  ticket_embeddings is a sequence of [id, vec], the
\* dict in the order of its keys; scores are in hundredths.

Cent == 100

\* lines 381-383: np.dot(a, b) / (norm(a) * norm(b)); 0.0 / 0.0 is nan.
Cosine(a, b) ==
    IF Norm(a) * Norm(b) = 0 THEN NaN
    ELSE (Dot(a, b) * Cent) \div (Norm(a) * Norm(b))

\* line 385: score >= threshold, which is False of nan.
Qualifies(score, threshold) == score # NaN /\ score >= threshold

\* lines 374-386: the scores list of source i.
RECURSIVE ScoresFrom(_, _, _, _)
ScoresFrom(emb, i, threshold, j) ==
    IF j > Len(emb) THEN <<>>
    ELSE LET score == Cosine(emb[i].vec, emb[j].vec)
             rest == ScoresFrom(emb, i, threshold, j + 1)
         IN  IF i # j /\ Qualifies(score, threshold)
             THEN <<[id |-> emb[j].id, score |-> score]>> \o rest
             ELSE rest

\* Mutant: the lowest scores first.
RECURSIVE InsertAsc(_, _)
InsertAsc(sorted, x) ==
    IF sorted = <<>> THEN <<x>>
    ELSE IF Head(sorted).score <= x.score
         THEN <<Head(sorted)>> \o InsertAsc(Tail(sorted), x)
         ELSE <<x>> \o sorted

\* x put behind every element that scores at least as high.
RECURSIVE InsertDesc(_, _)
InsertDesc(sorted, x) ==
    IF sorted = <<>> THEN <<x>>
    ELSE IF Head(sorted).score >= x.score
         THEN <<Head(sorted)>> \o InsertDesc(Tail(sorted), x)
         ELSE <<x>> \o sorted

\* line 389: scores.sort(key=score, reverse=True); the sort is stable.
RECURSIVE SortDesc(_)
SortDesc(s) ==
    IF s = <<>> THEN <<>>
    ELSE InsertDesc(SortDesc(SubSeq(s, 1, Len(s) - 1)), s[Len(s)])

\* line 390: scores[:top_k]; a negative top_k counts from the end.
PySlice(s, k) ==
    LET n == IF k >= 0 THEN Min(k, Len(s))
             ELSE IF Len(s) + k > 0 THEN Len(s) + k ELSE 0
    IN  SubSeq(s, 1, n)

\* lines 369-391: the similarities list, source by source.
RECURSIVE SimilaritiesFrom(_, _, _, _)
SimilaritiesFrom(emb, threshold, top_k, i) ==
    IF i > Len(emb) THEN <<>>
    ELSE LET kept == PySlice(SortDesc(ScoresFrom(emb, i, threshold, 1)), top_k)
         IN  [n \in 1..Len(kept) |->
                 [from |-> emb[i].id, to |-> kept[n].id, score |-> kept[n].score]]
                 \o SimilaritiesFrom(emb, threshold, top_k, i + 1)

\* The edges of sims whose reverse is not before them in sims.
RECURSIVE DropReverse(_, _)
DropReverse(sims, n) ==
    IF n > Len(sims) THEN <<>>
    ELSE IF \E m \in 1..(n - 1) : sims[m].from = sims[n].to /\ sims[m].to = sims[n].from
         THEN DropReverse(sims, n + 1)
         ELSE <<sims[n]>> \o DropReverse(sims, n + 1)

\* Mutant: one edge for each unordered pair.
SimilaritiesUndirected(emb, threshold, top_k) ==
    DropReverse(SimilaritiesFrom(emb, threshold, top_k, 1), 1)

Similarities(emb, threshold, top_k) == SimilaritiesFrom(emb, threshold, top_k, 1)

----------------------------------------------------------------------------
\* retrieve_graph_context.  A nullable value is <<>> (None, null) or <<v>>.

\* The error of line 130, and the one of line 144.
StoreUnavailable == "Vector store not found. Run ingestion first."

NoEvidence == "No relevant sections found"

ErrorResult(msg) ==
    [sections |-> <<>>, graph_context |-> <<>>, community_context |-> <<>>,
     provenance |-> <<>>, error |-> <<msg>>]

\* What a call that raises hands its caller: the exception, not a result.
Exception(kind) == [exception |-> kind]

\* Neo4jGraph.connect: the driver is created and its connectivity verified;
\* a driver that fails the verification is left as it is and the error
\* raised again.
Connect(reachable) == IF reachable THEN "open" ELSE "unverified"

\* Mutant: the driver is closed only when the block ends without an error.
ExitOnSuccess(driver, raising) == IF raising THEN driver ELSE "closed"

\* Neo4jGraph.__exit__ and close: the driver of the object is closed, with or
\* without an exception on its way out of the block.
Exit(driver, raising) == IF driver = "none" THEN driver ELSE "closed"

\* execute_query: the session of the query is the subject of a with
\* statement, released when the query returns and when it raises.
SessionExit(sessions) == sessions - 1

\* Mutant: a failing query is skipped wherever it is run.
OnQueryFailureSkip(stage) == "skip"

\* What a failing graph query does to the call: nothing catches it in the
\* expansion (lines 160-193), the except of line 268 skips the community in
\* the enrichment.
OnQueryFailure(stage) == IF stage = "communities" THEN "skip" ELSE "raise"

\* Mutant: the pipeline goes on without sections.
SeedOutcomeProceed(sections) == "extract"

\* lines 137-144: what follows the seed search.
SeedOutcome(sections) == IF sections = <<>> THEN "return" ELSE "extract"

\* lines 149-153: the set of the ticket ids of the sections that have one.
SectionTickets(sections) ==
    {sections[i].metadata["ticket_id"] :
        i \in {n \in 1..Len(sections) : HasKey(sections[n].metadata, "ticket_id")}}

\* line 149: list(set(...)).  A set of str is iterated in the order of the
\* hashes of its members, which the interpreter seeds anew in every process;
\* order is that order, over all ticket ids.
ExtractTicketIds(sections, order) ==
    LET member(t) == t \in SectionTickets(sections)
    IN  SelectSeq(order, member)

\* The map the query collects for an unmatched OPTIONAL MATCH: collect() skips
\* null, and a map of nulls is not null.
NullSimilar == [id |-> <<>>, score |-> <<>>, communityId |-> <<>>]

\* lines 170-177: collect(DISTINCT {id, score, communityId}) over the outgoing
\* SIMILAR_TO relationships of t with sim.score >= $threshold.
CollectSimilar(G, t, threshold, ids) ==
    LET hit(o) == <<t, o>> \in DOMAIN G.similar /\ G.similar[<<t, o>>].score >= threshold
        others == SelectSeq(ids, hit)
    IN  IF others = <<>> THEN <<NullSimilar>>
        ELSE [n \in 1..Len(others) |->
                 [id |-> <<others[n]>>,
                  score |-> <<G.similar[<<t, others[n]>>].score>>,
                  communityId |-> G.tickets[others[n]].communityId]]

\* lines 161-191: the records of the query, one for each ticket of ticket_ids
\* the database holds; ids is the order the database returns its nodes in.
ExpandQuery(G, ticket_ids, threshold, max_similar, ids) ==
    LET seed(t) == t \in DOMAIN G.tickets /\ \E n \in 1..Len(ticket_ids) : ticket_ids[n] = t
        seeds == SelectSeq(ids, seed)
    IN  [n \in 1..Len(seeds) |->
            [ticket_id |-> seeds[n],
             communityId |-> G.tickets[seeds[n]].communityId,
             similar_tickets |->
                 LET all == CollectSimilar(G, seeds[n], threshold, ids)
                 IN  SubSeq(all, 1, Min(max_similar, Len(all)))]]

RECURSIVE SumLen(_)
SumLen(lists) == IF lists = <<>> THEN 0 ELSE Len(Head(lists)) + SumLen(Tail(lists))

\* lines 216-220: the similar tickets of all records that have an id.
RECURSIVE AllSimilar(_)
AllSimilar(results) ==
    IF results = <<>> THEN <<>>
    ELSE LET named(sim) == sim.id # <<>>
         IN  SelectSeq(Head(results).similar_tickets, named) \o AllSimilar(Tail(results))

\* lines 205-220: the community ids of the records and of their similar tickets.
Communities(results) ==
    LET sims == AllSimilar(results)
    IN  {results[n].communityId[1] : n \in {m \in 1..Len(results) : results[m].communityId # <<>>}}
            \cup {sims[n].communityId[1] : n \in {m \in 1..Len(sims) : sims[m].communityId # <<>>}}

\* lines 227-236: ticket_degrees, and the tickets sorted by it, the first five.
TopTickets(results) ==
    LET byDegree == SortDesc([n \in 1..Len(results) |->
                                 [id |-> results[n].ticket_id,
                                  score |-> Len(results[n].similar_tickets)]])
        top == PySlice(byDegree, 5)
    IN  [n \in 1..Len(top) |-> [id |-> top[n].id, degree |-> top[n].score]]

\* lines 238-254
GraphContext(results, ticket_ids) ==
    LET sims == AllSimilar(results)
    IN  [num_similar |-> Len(sims),
         num_nodes |-> Len(results) + Cardinality({sims[n].id : n \in 1..Len(sims)}),
         num_relationships |-> SumLen([n \in 1..Len(results) |-> results[n].similar_tickets]),
         top_tickets |-> TopTickets(results),
         seed_tickets |-> ticket_ids,
         all_tickets |-> [n \in 1..Len(results) |->
                             [id |-> results[n].ticket_id,
                              communityId |-> results[n].communityId]],
         similar_tickets |-> sims]

\* The members of a set of integers in ascending order: sorted(communities),
\* and list(communities) of small non-negative ints, which hash to themselves.
RECURSIVE Ascending(_)
Ascending(S) ==
    IF S = {} THEN <<>>
    ELSE LET least == CHOOSE x \in S : \A y \in S : x <= y
         IN  <<least>> \o Ascending(S \ {least})

\* lines 256-270: one summary for each community, in ascending order.
CommunityContext(G, communities) ==
    LET ids == Ascending(communities)
    IN  [n \in 1..Len(ids) |->
            [community_id |-> ids[n],
             size |-> Cardinality({t \in DOMAIN G.tickets : G.tickets[t].communityId = <<ids[n]>>})]]

\* lines 276-283
Provenance(sections, ticket_ids, communities) ==
    [ticket_ids |-> ticket_ids,
     section_ids |-> [n \in 1..Len(sections) |->
                        IF HasKey(sections[n].metadata, "section_id")
                        THEN <<sections[n].metadata["section_id"]>> ELSE <<>>],
     community_ids |-> Ascending(communities),
     num_sections |-> Len(sections),
     num_tickets |-> Len(ticket_ids),
     num_communities |-> Cardinality(communities)]

----------------------------------------------------------------------------
\* get_subgraph (app_main.py)

\* 'score': 1.0, on the scale of the scores of the vector search.
BaseScore == One * One

Max(a, b) == IF a > b THEN a ELSE b

\* lines 320-367: a node for each ticket of ticket_ids the database holds.
TicketNodes(G, ticket_ids) ==
    [t \in {x \in DOMAIN G.tickets : \E n \in 1..Len(ticket_ids) : ticket_ids[n] = x} |->
        [communityId |-> G.tickets[t].communityId, score |-> BaseScore]]

\* lines 410-419: the scores of the nodes raised to the scores of the sections.
RECURSIVE UpdateScores(_, _)
UpdateScores(nodes, sections) ==
    IF sections = <<>> THEN nodes
    ELSE LET m == Head(sections).metadata
             next == IF HasKey(m, "ticket_id") /\ m["ticket_id"] \in DOMAIN nodes
                     THEN [nodes EXCEPT ![m["ticket_id"]].score = Max(@, Head(sections).score)]
                     ELSE nodes
         IN  UpdateScores(next, Tail(sections))

----------------------------------------------------------------------------
\* Inputs

\* (text, embedding row, metadata) of a section, as the ingestors hand them to add.
Items ==
    { [text |-> "login", vec |-> <<5, 0>>, meta |-> [ticket_id |-> "T1"]],
      [text |-> "crash", vec |-> <<6, 8>>,
       meta |-> [ticket_id |-> "T2", text |-> "summary"]] }

PadItem == CHOOSE it \in Items : it.text = "login"

RECURSIVE SeqsUpTo(_, _)
SeqsUpTo(S, n) ==
    IF n = 0 THEN {<<>>}
    ELSE LET shorter == SeqsUpTo(S, n - 1)
         IN  shorter \cup {Append(s, x) : s \in {t \in shorter : Len(t) = n - 1}, x \in S}

Batches == SeqsUpTo(Items, MaxBatch)

\* How the arguments of an add call are shaped: as the ingestors shape them
\* ("ok"), without metadatas ("none"), or off in one respect.
Kinds == {"ok", "none", "wide", "emb_short", "emb_long", "meta_short", "meta_long"}

WellShaped == {"ok", "none", "wide"}

DropLast(q) == IF q = <<>> THEN q ELSE SubSeq(q, 1, Len(q) - 1)

\* The arguments of one add call on the batch s.
AddArgs(s, kind) ==
    LET rows == [i \in 1..Len(s) |-> s[i].vec]
        dicts == [i \in 1..Len(s) |-> s[i].meta]
    IN  [texts |-> [i \in 1..Len(s) |-> s[i].text],
         emb |-> CASE kind = "wide" -> [i \in 1..Len(s) |-> rows[i] \o <<0>>]
                   [] kind = "emb_short" -> DropLast(rows)
                   [] kind = "emb_long" -> Append(rows, PadItem.vec)
                   [] OTHER -> rows,
         metas |-> [given |-> kind # "none",
                    list |-> CASE kind = "meta_short" -> DropLast(dicts)
                               [] kind = "meta_long" -> Append(dicts, PadItem.meta)
                               [] OTHER -> dicts]]

AddInputs == {AddArgs(s, kind) : s \in Batches, kind \in Kinds}

Queries == {<<5, 0>>, <<0, 10>>}

\* Embedding rows as a caller may hand them to add: of unit norm, of another
\* norm, and all zeros.
NormRows == {<<5, 0>>, <<3, 4>>, <<6, 8>>, <<0, 10>>, <<0, 0>>}

NormItems ==
    {[text |-> t, vec |-> v, meta |-> [ticket_id |-> "T1"]] :
        t \in {"login", "crash"}, v \in NormRows}

\* The ticket ids of a mapping, in the order of its keys.
TicketNames == <<"A", "B", "C", "D">>

\* Ticket embeddings in hundredths: the three of the worked example, one
\* between them, and one of norm 0.
TicketVectors == {<<100, 0>>, <<99, 14>>, <<0, 100>>, <<60, 80>>, <<0, 0>>}

\* Mappings of the first n ticket ids to embeddings, n up to MaxTickets.
TicketEmbeddings ==
    {[i \in 1..Len(vs) |-> [id |-> TicketNames[i], vec |-> vs[i]]] :
        vs \in SeqsUpTo(TicketVectors, MaxTickets)}

Thresholds == {50, 70}

\* top_k is the most edges a ticket may get: a count.
TopKs == 0..MaxTopK

\* The databases a build starts from: every ticket ingested, or only the
\* first two.
GraphOf(names) == [EmptyGraph EXCEPT !.tickets = [t \in names |-> [communityId |-> <<>>]]]

BuildGraphs ==
    {GraphOf({TicketNames[i] : i \in 1..MaxTickets}), GraphOf({TicketNames[1], TicketNames[2]})}

\* Sections as the ingestors add them: text, embedding, and metadata with the
\* parent ticket and the section id.  Two of them are sections of T1.
SectionItems ==
    { [text |-> "cannot log in", vec |-> <<5, 0>>,
       meta |-> [ticket_id |-> "T1", section_id |-> "T1_summary"]],
      [text |-> "login page crash", vec |-> <<4, 3>>,
       meta |-> [ticket_id |-> "T2", section_id |-> "T2_summary"]],
      [text |-> "password reset", vec |-> <<3, 4>>,
       meta |-> [ticket_id |-> "T1", section_id |-> "T1_description"]] }

\* The stores an ingestion persists: built by one add of up to MaxTotal
\* sections, none included.
SnapshotStores ==
    {LET a == AddArgs(b, "ok")
     IN  AddCall(NewStore(2), a.texts, a.emb, a.metas).store :
        b \in SeqsUpTo(SectionItems, MaxTotal)}

\* The Ticket nodes in the order the database returns them.
RetrieveTickets == <<"T1", "T2", "T3">>

\* The orders in which the sets of ticket ids of two processes are iterated.
HashOrders == {<<"T1", "T2", "T3">>, <<"T2", "T1", "T3">>}

SimilarEdge(sc) == [score |-> sc, method |-> "cosine"]

\* Databases: none ingested; T1 and T2 of community 5 with T1 -> T2 at 0.93;
\* three tickets of two communities, one edge below every threshold.
RetrieveGraphs ==
    { EmptyGraph,
      [EmptyGraph EXCEPT
          !.tickets = [t \in {"T1", "T2"} |-> [communityId |-> <<5>>]],
          !.similar = [e \in {<<"T1", "T2">>} |-> SimilarEdge(93)]],
      [EmptyGraph EXCEPT
          !.tickets = [t \in {"T1", "T2", "T3"} |->
                          [communityId |-> IF t = "T3" THEN <<2>> ELSE <<5>>]],
          !.similar = [e \in {<<"T1", "T2">>, <<"T1", "T3">>, <<"T2", "T1">>, <<"T3", "T1">>} |->
                          IF e = <<"T1", "T3">> THEN SimilarEdge(75)
                          ELSE IF e = <<"T3", "T1">> THEN SimilarEdge(60)
                          ELSE SimilarEdge(93)]] }

\* The community ids of the databases.
CommunityIds == {2, 5}

\* The arguments of retrieve_graph_context, the query as its embedding.
RetrieveArgs ==
    [query : Queries, top_k_sections : 1..MaxK,
     similarity_threshold : {70}, max_similar_tickets : 1..MaxSimilar]

NormInputs == {AddArgs(s, kind) : s \in SeqsUpTo(NormItems, MaxBatch), kind \in {"ok", "none"}}

MinScores == {<<>>, <<12>>}

----------------------------------------------------------------------------
\* CommunityDetector (backend/graph/community.py).  A text is the sequence of
\* its characters.

\* The Ticket nodes of community c.
Members(G, c) == {t \in DOMAIN G.tickets : G.tickets[t].communityId = <<c>>}

\* The ids of the communities the tickets carry.
AssignedIds(G) ==
    {G.tickets[t].communityId[1] : t \in {x \in DOMAIN G.tickets : G.tickets[x].communityId # <<>>}}

\* OPTIONAL MATCH (t)-[r:SIMILAR_TO]-() ... count(r): the relationships at t,
\* in either direction.
Degree(G, t) == Cardinality({e \in DOMAIN G.similar : e[1] = t \/ e[2] = t})

\* lines 361-376: the tickets of the community ORDER BY degree DESC LIMIT
\* $top_n.  The query orders by nothing else: rows of equal degree come in
\* the order the database produced them in, scan.
TopTicketsQuery(G, c, top_n, scan) ==
    LET member(t) == t \in Members(G, c)
        rows == SelectSeq(scan, member)
        byDegree == SortDesc([n \in 1..Len(rows) |->
                                 [id |-> rows[n], score |-> Degree(G, rows[n])]])
        top == SubSeq(byDegree, 1, Min(top_n, Len(byDegree)))
    IN  [n \in 1..Len(top) |-> [id |-> top[n].id, degree |-> top[n].score]]

\* get_top_tickets_per_community: ORDER BY t.communityId, degree DESC, then
\* collect(...)[0..$top_n] for each community.
GetTopTicketsPerCommunity(G, top_n, scan) ==
    [c \in AssignedIds(G) |-> TopTicketsQuery(G, c, top_n, scan)]

Letters == <<"a", "b", "c", "d", "e", "f", "g", "h", "i", "j", "k", "l", "m", "n", "o", "p", "q", "r", "s", "t", "u", "v", "w", "x", "y", "z">>

Capitals == <<"A", "B", "C", "D", "E", "F", "G", "H", "I", "J", "K", "L", "M", "N", "O", "P", "Q", "R", "S", "T", "U", "V", "W", "X", "Y", "Z">>

Digits == {"0", "1", "2", "3", "4", "5", "6", "7", "8", "9"}

IsLetter(ch) == \E i \in 1..Len(Letters) : Letters[i] = ch

\* str.lower, character by character.
LowerChar(ch) ==
    IF \E i \in 1..Len(Capitals) : Capitals[i] = ch
    THEN Letters[CHOOSE i \in 1..Len(Capitals) : Capitals[i] = ch]
    ELSE ch

Lower(text) == [i \in 1..Len(text) |-> LowerChar(text[i])]

\* \w of the lowered text.
IsWordChar(ch) == IsLetter(ch) \/ ch \in Digits \/ ch = "_"

\* ' '.join(texts)
RECURSIVE Join(_)
Join(texts) ==
    IF texts = <<>> THEN <<>>
    ELSE IF Len(texts) = 1 THEN texts[1]
    ELSE texts[1] \o <<" ">> \o Join(Tail(texts))

\* The maximal runs of word characters of a text, run being the one open.
RECURSIVE WordRuns(_, _)
WordRuns(text, run) ==
    IF text = <<>> THEN (IF run = <<>> THEN <<>> ELSE <<run>>)
    ELSE IF IsWordChar(Head(text)) THEN WordRuns(Tail(text), Append(run, Head(text)))
    ELSE (IF run = <<>> THEN <<>> ELSE <<run>>) \o WordRuns(Tail(text), <<>>)

\* re.findall(r'\b[a-z]{3,}\b', all_text): between two word boundaries lies a
\* whole run of word characters, so the matches are the runs of three or more
\* characters that are letters throughout.
FindAll(text) ==
    LET word(run) == Len(run) >= 3 /\ \A i \in 1..Len(run) : IsLetter(run[i])
    IN  SelectSeq(WordRuns(text, <<>>), word)

\* lines 325-330
StopWords ==
    { <<"t", "h", "e">>, <<"a", "n", "d">>, <<"f", "o", "r">>, <<"a", "r", "e">>,
      <<"b", "u", "t">>, <<"n", "o", "t">>, <<"y", "o", "u">>, <<"a", "l", "l">>,
      <<"c", "a", "n">>, <<"w", "a", "s">>, <<"t", "h", "i", "s">>,
      <<"t", "h", "a", "t">>, <<"w", "i", "t", "h">>, <<"h", "a", "v", "e">>,
      <<"f", "r", "o", "m">>, <<"t", "h", "e", "y">>, <<"w", "i", "l", "l">>,
      <<"b", "e", "e", "n">>, <<"h", "a", "s">>, <<"h", "a", "d">>,
      <<"w", "e", "r", "e">>, <<"s", "a", "i", "d">>, <<"t", "h", "e", "i", "r">>,
      <<"w", "h", "a", "t">>, <<"t", "h", "a", "n">>, <<"w", "h", "e", "n">>,
      <<"w", "h", "e", "r", "e">>, <<"w", "h", "o">>, <<"w", "h", "i", "c", "h">>,
      <<"t", "h", "e", "s", "e">>, <<"t", "h", "o", "s", "e">>, <<"t", "h", "e", "n">>,
      <<"i", "n", "t", "o">> }

\* Counter(words): the count of each word, in the order of first appearance.
RECURSIVE CounterOf(_, _)
CounterOf(words, counts) ==
    IF words = <<>> THEN counts
    ELSE LET w == Head(words)
             known == \E n \in 1..Len(counts) : counts[n].id = w
         IN  CounterOf(Tail(words),
                       IF known
                       THEN [n \in 1..Len(counts) |->
                                IF counts[n].id = w
                                THEN [counts[n] EXCEPT !.score = @ + 1] ELSE counts[n]]
                       ELSE Append(counts, [id |-> w, score |-> 1]))

\* Mutant: the first n words counted, without sorting.
MostCommonFirstSeen(counts, n) ==
    IF n <= 0 THEN <<>> ELSE SubSeq(counts, 1, Min(n, Len(counts)))

\* Counter.most_common(n): heapq.nlargest(n, items, key=count), which is
\* sorted(items, key=count, reverse=True)[:n] for n > 0 and empty otherwise.
MostCommon(counts, n) ==
    IF n <= 0 THEN <<>> ELSE SubSeq(SortDesc(counts), 1, Min(n, Len(counts)))

\* lines 315-338, on the texts the query collected
FrequentTerms(texts, top_terms) ==
    IF texts = <<>> THEN <<>>
    ELSE LET keep(w) == w \notin StopWords
             words == SelectSeq(FindAll(Lower(Join(texts))), keep)
             top == MostCommon(CounterOf(words, <<>>), top_terms)
         IN  [n \in 1..Len(top) |-> top[n].id]

\* The ids of the Section nodes of the tickets of community c.
CommunitySections(G, c) == {s \in DOMAIN G.sections : G.sections[s].ticket \in Members(G, c)}

\* analyze_community_text: collect(s.text) over the sections of the
\* community, in the order the database produced them in, scan.
AnalyzeCommunityText(G, c, top_terms, scan) ==
    LET member(s) == s \in CommunitySections(G, c)
        rows == SelectSeq(scan, member)
    IN  FrequentTerms([n \in 1..Len(rows) |-> G.sections[rows[n]].text], top_terms)

\* generate_community_summary
GenerateCommunitySummary(G, c, top_tickets, top_terms, scan, sectionScan) ==
    [community_id |-> c,
     size |-> Cardinality(Members(G, c)),
     top_tickets |-> TopTicketsQuery(G, c, top_tickets, scan),
     frequent_terms |-> AnalyzeCommunityText(G, c, top_terms, sectionScan)]

\* line 221: community_sizes, the count of tickets of each community id.
CommunitySizes(G) == [c \in AssignedIds(G) |-> Cardinality(Members(G, c))]

RECURSIVE SumSizes(_, _)
SumSizes(sizes, ids) ==
    IF ids = {} THEN 0
    ELSE LET c == CHOOSE x \in ids : TRUE
         IN  sizes[c] + SumSizes(sizes, ids \ {c})

\* Mutant: the average is taken without looking for an empty dict.
AvgSizeUnguarded(sizes) ==
    IF DOMAIN sizes = {} THEN NaN
    ELSE (SumSizes(sizes, DOMAIN sizes) * Cent) \div Cardinality(DOMAIN sizes)

\* line 227: sum / len if community_sizes else 0, in hundredths.
AvgSize(sizes) ==
    IF DOMAIN sizes = {} THEN 0
    ELSE (SumSizes(sizes, DOMAIN sizes) * Cent) \div Cardinality(DOMAIN sizes)

\* lines 228-229
LargestSize(sizes) ==
    IF DOMAIN sizes = {} THEN 0
    ELSE sizes[CHOOSE c \in DOMAIN sizes : \A d \in DOMAIN sizes : sizes[d] <= sizes[c]]

SmallestSize(sizes) ==
    IF DOMAIN sizes = {} THEN 0
    ELSE sizes[CHOOSE c \in DOMAIN sizes : \A d \in DOMAIN sizes : sizes[d] >= sizes[c]]

\* get_community_stats
GetCommunityStats(G) ==
    LET sizes == CommunitySizes(G)
    IN  [num_communities |-> Cardinality(DOMAIN sizes),
         sizes |-> sizes,
         total_nodes |-> SumSizes(sizes, DOMAIN sizes),
         avg_size |-> AvgSize(sizes),
         largest_size |-> LargestSize(sizes),
         smallest_size |-> SmallestSize(sizes)]

\* gds.graph.project(name, 'Ticket', {SIMILAR_TO: {orientation: 'UNDIRECTED'}}):
\* the Ticket nodes and the SIMILAR_TO relationships of the moment, copied
\* into the graph catalog of the server.
Project(G) == [nodes |-> DOMAIN G.tickets, edges |-> DOMAIN G.similar]

\* _ensure_projection: the projection of that name is made when the catalog
\* holds none, and used as it is when it holds one.
EnsureProjection(G) ==
    IF G.projection # <<>> THEN G ELSE [G EXCEPT !.projection = <<Project(G)>>]

Adjacent(P, a, b) == <<a, b>> \in P.edges \/ <<b, a>> \in P.edges

\* The nodes of block that the nodes of seen reach inside block.
RECURSIVE Reach(_, _, _)
Reach(P, block, seen) ==
    LET next == seen \cup {b \in block : \E a \in seen : Adjacent(P, a, b)}
    IN  IF next = seen THEN seen ELSE Reach(P, block, next)

TicketIndex(t) == CHOOSE i \in 1..Len(TicketNames) : TicketNames[i] = t

\* The outcomes of gds.louvain and gds.leiden on a projection: every node is
\* given the community of one of its members, and a community is held
\* together by relationships of the projection.
Clusterings(P) ==
    {f \in [P.nodes -> P.nodes] :
        \A n \in P.nodes :
            /\ f[f[n]] = f[n]
            /\ TicketIndex(f[n]) <= TicketIndex(n)
            /\ LET block == {m \in P.nodes : f[m] = f[n]}
               IN  Reach(P, block, {f[n]}) = block}

\* writeProperty: 'communityId', on the nodes of the projection.
WriteCommunities(G, f) ==
    [G EXCEPT !.tickets =
        [t \in DOMAIN G.tickets |->
            IF t \in DOMAIN f
            THEN [G.tickets[t] EXCEPT !.communityId = <<TicketIndex(f[t])>>]
            ELSE G.tickets[t]]]

\* batch_upsert_tickets: MERGE (t:Ticket {id}) SET the ticket's own
\* properties; communityId is not among them.
UpsertTickets(G, ids) ==
    [G EXCEPT !.tickets =
        [t \in (DOMAIN G.tickets) \cup ids |->
            IF t \in DOMAIN G.tickets THEN G.tickets[t] ELSE [communityId |-> <<>>]]]

\* batch_upsert_sections: MATCH the ticket, MERGE (s:Section {id}) SET key and
\* text, MERGE the HAS_SECTION relationship.
RECURSIVE UpsertSections(_, _)
UpsertSections(G, sections) ==
    IF sections = <<>> THEN G
    ELSE LET s == Head(sections)
             G1 == IF s.ticket_id \in DOMAIN G.tickets
                   THEN [G EXCEPT !.sections =
                            [x \in (DOMAIN G.sections) \cup {s.id} |->
                                IF x = s.id THEN [ticket |-> s.ticket_id, text |-> s.text]
                                ELSE G.sections[x]]]
                   ELSE G
         IN  UpsertSections(G1, Tail(sections))

\* Inputs of the CommunityDetector

\* "login failure timeout"
LoginTimeout ==
    << "l", "o", "g", "i", "n", " ", "f", "a", "i", "l", "u", "r", "e", " ", "t", "i",
       "m", "e", "o", "u", "t" >>

\* "login failure retry"
LoginRetry ==
    << "l", "o", "g", "i", "n", " ", "f", "a", "i", "l", "u", "r", "e", " ", "r", "e",
       "t", "r", "y" >>

\* "unrelated crash"
Unrelated ==
    << "u", "n", "r", "e", "l", "a", "t", "e", "d", " ", "c", "r", "a", "s", "h" >>

\* "The DB login FAILED: error500"
MixedCase ==
    << "T", "h", "e", " ", "D", "B", " ", "l", "o", "g", "i", "n", " ", "F", "A", "I",
       "L", "E", "D", ":", " ", "e", "r", "r", "o", "r", "5", "0", "0" >>

\* "Login and retry_now the login"
Underscored ==
    << "L", "o", "g", "i", "n", " ", "a", "n", "d", " ", "r", "e", "t", "r", "y", "_",
       "n", "o", "w", " ", "t", "h", "e", " ", "l", "o", "g", "i", "n" >>

MaxTop == 2        \* largest number of representative tickets asked for
MaxTerms == 3      \* largest number of frequent terms asked for
MaxWrites == 4     \* most writes to the database in one behaviour of SpecClustering

\* A Section node of ticket t.
SectionOf(t, text) == [ticket |-> t, text |-> text]

Clustered(assign, edges, sections) ==
    [EmptyGraph EXCEPT !.tickets = [t \in DOMAIN assign |-> [communityId |-> assign[t]]],
                       !.similar = [e \in edges |-> SimilarEdge(93)],
                       !.sections = sections]

SectionNames == <<"A_issue_summary", "B_issue_summary", "C_issue_summary", "A_comments">>

\* Databases after an ingestion: the three tickets of community 5 whose
\* sections are the example of the term signature, A and B of equal degree;
\* two communities with sections in mixed case; no community assigned.
CommunityGraphs ==
    { Clustered([t \in {"A", "B", "C"} |-> <<5>>], {<<"A", "B">>},
                [s \in {SectionNames[1], SectionNames[2], SectionNames[3]} |->
                    IF s = SectionNames[1] THEN SectionOf("A", LoginTimeout)
                    ELSE IF s = SectionNames[2] THEN SectionOf("B", LoginRetry)
                    ELSE SectionOf("C", Unrelated)]),
      Clustered([t \in {"A", "B", "C"} |-> IF t = "C" THEN <<2>> ELSE <<5>>],
                {<<"A", "B">>, <<"B", "A">>, <<"B", "C">>},
                [s \in {SectionNames[1], SectionNames[2], SectionNames[3], SectionNames[4]} |->
                    IF s = SectionNames[1] THEN SectionOf("A", MixedCase)
                    ELSE IF s = SectionNames[2] THEN SectionOf("B", Underscored)
                    ELSE IF s = SectionNames[3] THEN SectionOf("C", Unrelated)
                    ELSE SectionOf("A", LoginRetry)]),
      Clustered([t \in {"A", "B", "C"} |-> IF t = "A" THEN <<5>> ELSE <<>>],
                {<<"B", "C">>, <<"C", "B">>},
                [s \in {SectionNames[1]} |-> SectionOf("A", Unrelated)]),
      Clustered([t \in {"A", "B"} |-> <<>>], {<<"A", "B">>},
                [s \in {SectionNames[1]} |-> SectionOf("A", LoginTimeout)]) }

\* The orders in which the database produces the Ticket rows of a query that
\* asks for none, and the Section rows.
TicketScans == {<<"A", "B", "C", "D">>, <<"B", "A", "D", "C">>}

SectionScans ==
    {SectionNames,
     <<SectionNames[4], SectionNames[3], SectionNames[2], SectionNames[1]>>}

\* The community ids asked about: the assigned ones, and one no ticket has.
AskedIds == CommunityIds \cup {7}

\* The databases a clustering starts from: two tickets, joined or not, and no
\* projection in the catalog.
ClusteringGraphs ==
    {GraphOf({"A", "B"}),
     [GraphOf({"A", "B"}) EXCEPT !.similar = [e \in {<<"A", "B">>} |-> SimilarEdge(93)]]}

\* The relationships a later build may add.
LaterEdges == {<<TicketNames[i], TicketNames[i + 1]>> : i \in 1..(MaxTickets - 1)}

\* Inputs of the similarity rebuilds and of the ingestors

MaxBuilds == 2     \* most similarity builds on one database in SpecRebuild

\* The ticket embeddings of two ingestions: B moved away from A in the second.
RebuildEmbeddings ==
    { <<[id |-> "A", vec |-> <<100, 0>>], [id |-> "B", vec |-> <<99, 14>>],
        [id |-> "C", vec |-> <<60, 80>>]>>,
      <<[id |-> "A", vec |-> <<100, 0>>], [id |-> "B", vec |-> <<0, 100>>],
        [id |-> "C", vec |-> <<60, 80>>]>> }

RebuildArgs == [emb : RebuildEmbeddings, threshold : Thresholds, top_k : TopKs]

\* The files handed to an ingestor: rows of different tickets' sections, each
\* section with the embedding the model gives its text.
IngestFiles ==
    {f \in SeqsUpTo(SectionItems, MaxBatch) :
        \A i, j \in 1..Len(f) : i # j => f[i] # f[j]}

IngestOps == {"ingest_csv", "ingest_jsonl"}

----------------------------------------------------------------------------
\* History

\* The entry an offset holds: its vector and, once stored, its text.
EntryAt(S, i) ==
    [vector |-> S.index.xb[i],
     text |-> IF i <= Len(S.texts) THEN S.texts[i] ELSE ""]

\* The first entry each offset was given, extended by the offsets S adds.
Track(first, S) ==
    [i \in 1..(IF StoreLen(S) > Len(first) THEN StoreLen(S) ELSE Len(first)) |->
        IF i <= Len(first) THEN first[i] ELSE EntryAt(S, i)]

----------------------------------------------------------------------------
\* The calls, each one whole.

Init ==
    /\ store \in {NewStore(d) : d \in Dims}
    /\ faissFile = <<>>
    /\ metaFile = <<>>
    /\ lastCall = [op |-> "new", status |-> "ok"]
    /\ firstAt = <<>>
    /\ saved = <<>>
    /\ pc = "idle"
    /\ frame = <<>>
    /\ graph = EmptyGraph
    /\ queries = <<>>

\* VectorStore(dimension=d): a fresh store object on the same index_path.
DoNew(d) ==
    /\ store' = NewStore(d)
    /\ lastCall' = [op |-> "new", status |-> "ok"]

\* The model stops adding when a list of the store would outgrow MaxTotal.
Room(S, n) ==
    /\ StoreLen(S) + n <= MaxTotal
    /\ Len(S.texts) + n <= MaxTotal
    /\ Len(S.vectors) + n <= MaxTotal
    /\ Len(S.metadatas) + n <= MaxTotal

DoAdd(a) ==
    /\ Room(store, Len(a.texts))
    /\ LET r == AddCall(store, a.texts, a.emb, a.metas)
       IN  /\ store' = r.store
           /\ lastCall' = [op |-> "add", status |-> r.status]

DoClear ==
    /\ store' = InitIndex(store)
    /\ lastCall' = [op |-> "clear", status |-> "ok"]

DoLoad ==
    LET r == LoadCall(store, faissFile, metaFile)
    IN  /\ store' = r.store
        /\ lastCall' = [op |-> "load", status |-> r.status]

\* persist, both files written.
DoPersist ==
    /\ faissFile' = <<WriteIndex(store.index)>>
    /\ metaFile' = <<Pickle(store)>>
    /\ saved' = <<store>>
    /\ lastCall' = [op |-> "persist", status |-> "ok"]

DoSearch(q, k, ms) ==
    /\ lastCall' = [op |-> "search", status |-> SearchCall(store, q, k, ms).status,
                    q |-> q, k |-> k, ms |-> ms]
    /\ UNCHANGED store

disk == <<faissFile, metaFile, saved>>

----------------------------------------------------------------------------
\* Spec: one caller working on the store in memory.

New(d) == DoNew(d) /\ firstAt' = <<>> /\ UNCHANGED <<disk, pc, frame>> /\ UNCHANGED neo4j

Add(a) ==
    DoAdd(a) /\ firstAt' = Track(firstAt, store') /\ UNCHANGED <<disk, pc, frame>> /\ UNCHANGED neo4j

Clear == DoClear /\ UNCHANGED <<firstAt, disk, pc, frame>> /\ UNCHANGED neo4j

Search(q, k, ms) == DoSearch(q, k, ms) /\ UNCHANGED <<firstAt, disk, pc, frame>> /\ UNCHANGED neo4j

Next ==
    \/ \E d \in Dims : New(d)
    \/ \E a \in AddInputs : Add(a)
    \/ Clear
    \/ \E q \in Queries, k \in 0..MaxK, ms \in MinScores : Search(q, k, ms)

Spec == Init /\ [][Next]_vars

----------------------------------------------------------------------------
\* SpecSnapshot: one caller at a time building a store with well-shaped adds,
\* saving it, and loading the snapshot back, into the same or a fresh store.

WellShapedInputs == {AddArgs(s, kind) : s \in Batches, kind \in WellShaped}

SnapNew(d) == DoNew(d) /\ UNCHANGED <<firstAt, disk, pc, frame>> /\ UNCHANGED neo4j

SnapAdd(a) == DoAdd(a) /\ UNCHANGED <<firstAt, disk, pc, frame>> /\ UNCHANGED neo4j

SnapClear == DoClear /\ UNCHANGED <<firstAt, disk, pc, frame>> /\ UNCHANGED neo4j

Persist == DoPersist /\ UNCHANGED <<store, firstAt, pc, frame>> /\ UNCHANGED neo4j

Load == DoLoad /\ UNCHANGED <<firstAt, disk, pc, frame>> /\ UNCHANGED neo4j

NextSnapshot ==
    \/ \E d \in Dims : SnapNew(d)
    \/ \E a \in WellShapedInputs : SnapAdd(a)
    \/ SnapClear
    \/ Persist
    \/ Load

SpecSnapshot == Init /\ [][NextSnapshot]_vars

----------------------------------------------------------------------------
\* SpecNorm: one caller adding rows of any norm to the store in memory.

NormNew(d) == DoNew(d) /\ UNCHANGED <<firstAt, disk, pc, frame>> /\ UNCHANGED neo4j

NormAdd(a) == DoAdd(a) /\ UNCHANGED <<firstAt, disk, pc, frame>> /\ UNCHANGED neo4j

NormClear == DoClear /\ UNCHANGED <<firstAt, disk, pc, frame>> /\ UNCHANGED neo4j

NextNorm ==
    \/ \E d \in Dims : NormNew(d)
    \/ \E a \in NormInputs : NormAdd(a)
    \/ NormClear

SpecNorm == Init /\ [][NextNorm]_vars

----------------------------------------------------------------------------
\* SpecSimilar: one call of connect_similar_tickets, on a mapping, a threshold
\* and a top_k drawn when the call is made, against a database that holds the
\* tickets.

InitSimilar ==
    /\ store = NewStore(2)
    /\ faissFile = <<>>
    /\ metaFile = <<>>
    /\ lastCall = [op |-> "new", status |-> "ok"]
    /\ firstAt = <<>>
    /\ saved = <<>>
    /\ pc = "connect"
    /\ frame \in [emb : TicketEmbeddings, threshold : Thresholds, top_k : TopKs]
    /\ graph \in BuildGraphs
    /\ queries = <<>>

\* connect_similar_tickets, the whole call.
ConnectSimilarTickets ==
    /\ pc = "connect"
    /\ LET sims == Similarities(frame.emb, frame.threshold, frame.top_k)
           r == CreateSimilarityEdges(graph, sims, "cosine")
       IN  /\ graph' = r.graph
           /\ lastCall' = [op |-> "connect_similar_tickets", status |-> "ok",
                           out |-> sims, count |-> r.count]
    /\ queries' = Append(queries, "create_similarity_edges")
    /\ pc' = "idle"
    /\ UNCHANGED <<store, firstAt, disk, frame>>

NextSimilar == ConnectSimilarTickets

SpecSimilar == InitSimilar /\ [][NextSimilar]_vars

----------------------------------------------------------------------------
\* SpecRetrieve: calls of retrieve_graph_context, stage by stage, one after
\* the other, against the snapshot and the database an ingestion left.

InitRetrieve ==
    /\ store = NewStore(2)
    /\ \/ faissFile = <<>> /\ metaFile = <<>>
       \/ \E S \in SnapshotStores :
             faissFile = <<WriteIndex(S.index)>> /\ metaFile = <<Pickle(S)>>
    /\ lastCall = [op |-> "new", status |-> "ok"]
    /\ firstAt = <<>>
    /\ saved = <<>>
    /\ pc = "idle"
    /\ \E a \in RetrieveArgs, o \in HashOrders :
          frame = [args |-> a, order |-> o, stages |-> <<>>, sections |-> <<>>,
                   ticket_ids |-> <<>>, results |-> <<>>, prev |-> <<>>,
                   subgraph |-> <<>>, driver |-> "none", sessions |-> 0,
                   fault |-> "none", failed |-> {}, community_context |-> <<>>]
    /\ graph \in RetrieveGraphs
    /\ queries = <<>>

\* The last call of retrieve_graph_context is over: it returned a result, or
\* it raised.
Finished == pc = "idle" /\ lastCall.op = "retrieve_graph_context"

Returned == Finished /\ lastCall.status # "raised"

Raised == Finished /\ lastCall.status = "raised"

\* The call is made, in a process whose sets iterate in the order o.
RetrieveBegin(o) ==
    /\ pc = "idle"
    /\ pc' = "load"
    /\ frame' = [frame EXCEPT !.order = o, !.stages = <<>>, !.sections = <<>>,
                              !.ticket_ids = <<>>, !.results = <<>>, !.subgraph = <<>>,
                              !.driver = "none", !.sessions = 0, !.fault = "none",
                              !.failed = {},
                              !.community_context = <<>>,
                              !.prev = IF Returned THEN <<lastCall.out>> ELSE @]
    /\ queries' = <<>>
    /\ UNCHANGED <<store, lastCall, firstAt, disk, graph>>

\* lines 123-131: VectorStore() and load()
RetrieveLoad ==
    /\ pc = "load"
    /\ LET r == LoadCall(NewStore(2), faissFile, metaFile)
       IN  /\ store' = r.store
           /\ IF r.status = "True"
              THEN pc' = "search" /\ UNCHANGED lastCall
              ELSE /\ pc' = "idle"
                   /\ lastCall' = [op |-> "retrieve_graph_context", status |-> "error",
                                   out |-> ErrorResult(StoreUnavailable)]
    /\ frame' = [frame EXCEPT !.stages = Append(@, "load")]
    /\ UNCHANGED <<firstAt, disk, neo4j>>

\* lines 134-146: the seed search
RetrieveSearch ==
    /\ pc = "search"
    /\ LET r == SearchCall(store, frame.args.query, frame.args.top_k_sections, <<>>)
       IN  IF r.status # "ok"
           THEN /\ pc' = "idle"
                /\ lastCall' = [op |-> "retrieve_graph_context", status |-> r.status,
                                out |-> ErrorResult(r.status)]
                /\ frame' = [frame EXCEPT !.stages = Append(@, "search")]
           ELSE IF SeedOutcome(r.out) = "return"
           THEN /\ pc' = "idle"
                /\ lastCall' = [op |-> "retrieve_graph_context", status |-> "error",
                                out |-> ErrorResult(NoEvidence)]
                /\ frame' = [frame EXCEPT !.stages = Append(@, "search")]
           ELSE /\ pc' = "extract"
                /\ frame' = [frame EXCEPT !.stages = Append(@, "search"), !.sections = r.out]
                /\ UNCHANGED lastCall
    /\ UNCHANGED <<store, firstAt, disk, neo4j>>

\* lines 149-156: entity extraction
RetrieveExtract ==
    /\ pc = "extract"
    /\ pc' = "connect"
    /\ frame' = [frame EXCEPT !.stages = Append(@, "extract"),
                              !.ticket_ids = ExtractTicketIds(frame.sections, frame.order)]
    /\ UNCHANGED <<store, lastCall, firstAt, disk, neo4j>>

\* line 160: with Neo4jGraph() as graph.  __enter__ connects; when the
\* database cannot be reached connect raises, and the call with it.
RetrieveConnect(reachable) ==
    /\ pc = "connect"
    /\ frame' = [frame EXCEPT !.stages = Append(@, "connect"),
                              !.driver = Connect(reachable),
                              !.fault = IF reachable THEN @ ELSE "connect"]
    /\ IF reachable
       THEN pc' = "expand" /\ UNCHANGED lastCall
       ELSE /\ pc' = "idle"
            /\ lastCall' = [op |-> "retrieve_graph_context", status |-> "raised",
                            out |-> Exception("ServiceUnavailable")]
    /\ UNCHANGED <<store, firstAt, disk, neo4j>>

\* lines 161-193: graph expansion.  The query runs in a session of its own;
\* when it fails the exception leaves the with block, which closes the driver.
RetrieveExpand(fails) ==
    /\ pc = "expand"
    /\ queries' = Append(queries, "expand")
    /\ IF fails /\ OnQueryFailure("expand") = "raise"
       THEN /\ pc' = "idle"
            /\ lastCall' = [op |-> "retrieve_graph_context", status |-> "raised",
                            out |-> Exception("Neo4jError")]
            /\ frame' = [frame EXCEPT !.stages = Append(@, "expand"),
                                      !.fault = "expand",
                                      !.sessions = SessionExit(@ + 1),
                                      !.driver = Exit(@, TRUE)]
       ELSE /\ pc' = "communities"
            /\ frame' = [frame EXCEPT
                            !.stages = Append(@, "expand"),
                            !.fault = IF fails THEN "expand" ELSE @,
                            !.sessions = SessionExit(@ + 1),
                            !.results = IF fails THEN <<>>
                                        ELSE ExpandQuery(graph, frame.ticket_ids,
                                                         frame.args.similarity_threshold,
                                                         frame.args.max_similar_tickets,
                                                         RetrieveTickets)]
            /\ UNCHANGED lastCall
    /\ UNCHANGED <<store, firstAt, disk, graph>>

\* lines 256-273: cluster enrichment, one summary for each community in
\* ascending order; the summaries of the communities of failing raise.  The
\* with block ends here.
RetrieveCommunities(failing) ==
    /\ pc = "communities"
    /\ failing \subseteq Communities(frame.results)
    /\ pc' = "provenance"
    /\ queries' = queries \o [n \in 1..Cardinality(Communities(frame.results)) |->
                                 "generate_community_summary"]
    /\ frame' = [frame EXCEPT
                    !.stages = Append(@, "communities"),
                    !.failed = failing,
                    !.community_context =
                        CommunityContext(graph, Communities(frame.results) \ failing),
                    !.driver = Exit(@, FALSE)]
    /\ UNCHANGED <<store, lastCall, firstAt, disk, graph>>

\* lines 275-290: provenance assembly and the result
RetrieveReturn ==
    /\ pc = "provenance"
    /\ pc' = "idle"
    /\ lastCall' =
          [op |-> "retrieve_graph_context", status |-> "ok",
           out |-> [sections |-> frame.sections,
                    graph_context |-> GraphContext(frame.results, frame.ticket_ids),
                    community_context |-> frame.community_context,
                    provenance |-> Provenance(frame.sections, frame.ticket_ids,
                                              Communities(frame.results)),
                    error |-> <<>>]]
    /\ frame' = [frame EXCEPT !.stages = Append(@, "provenance")]
    /\ UNCHANGED <<store, firstAt, disk, neo4j>>

\* get_subgraph, from the end of its call of retrieve_graph_context on: 500
\* for an exception, 404 for an error, else the ticket nodes of the subgraph
\* with their scores.
GetSubgraph ==
    /\ Finished
    /\ frame.subgraph = <<>>
    /\ IF Raised
       THEN /\ frame' = [frame EXCEPT !.subgraph = <<[status |-> "500"]>>]
            /\ UNCHANGED queries
       ELSE IF lastCall.out.error # <<>>
       THEN /\ frame' = [frame EXCEPT !.subgraph = <<[status |-> "404"]>>]
            /\ UNCHANGED queries
       ELSE /\ frame' =
                  [frame EXCEPT !.subgraph =
                      <<[status |-> "ok",
                         ticket_nodes |->
                             UpdateScores(TicketNodes(graph, lastCall.out.provenance.ticket_ids),
                                          lastCall.out.sections)]>>]
            /\ queries' = Append(queries, "subgraph")
    /\ UNCHANGED <<store, lastCall, firstAt, disk, pc, graph>>

NextRetrieve ==
    \/ GetSubgraph
    \/ \E o \in HashOrders : RetrieveBegin(o)
    \/ RetrieveLoad
    \/ RetrieveSearch
    \/ RetrieveExtract
    \/ \E reachable \in BOOLEAN : RetrieveConnect(reachable)
    \/ \E fails \in BOOLEAN : RetrieveExpand(fails)
    \/ \E failing \in SUBSET CommunityIds : RetrieveCommunities(failing)
    \/ RetrieveReturn

SpecRetrieve == InitRetrieve /\ [][NextRetrieve]_vars

----------------------------------------------------------------------------
\* SpecCommunity: the reading calls of a CommunityDetector, against a database
\* an ingestion left.

InitCommunity ==
    /\ store = NewStore(2)
    /\ faissFile = <<>>
    /\ metaFile = <<>>
    /\ lastCall = [op |-> "new", status |-> "ok"]
    /\ firstAt = <<>>
    /\ saved = <<>>
    /\ pc = "idle"
    /\ frame = <<>>
    /\ graph \in CommunityGraphs
    /\ queries = <<>>

\* The last call, with its arguments and what it returned.
Called(op, args, out) ==
    /\ lastCall' = [op |-> op, status |-> "ok", args |-> args, out |-> out]
    /\ UNCHANGED <<store, firstAt, disk, pc, frame, graph, queries>>

CommunitySummary(c, top_n, scan, sectionScan) ==
    Called("generate_community_summary",
           [community_id |-> c, top_n |-> top_n, top_terms |-> MaxTerms,
            scan |-> scan, sectionScan |-> sectionScan],
           GenerateCommunitySummary(graph, c, top_n, MaxTerms, scan, sectionScan))

TopTicketsPerCommunity(top_n, scan) ==
    Called("get_top_tickets_per_community", [top_n |-> top_n, scan |-> scan],
           GetTopTicketsPerCommunity(graph, top_n, scan))

CommunityText(c, top_terms, sectionScan) ==
    Called("analyze_community_text",
           [community_id |-> c, top_terms |-> top_terms, sectionScan |-> sectionScan],
           AnalyzeCommunityText(graph, c, top_terms, sectionScan))

CommunityStats == Called("get_community_stats", <<>>, GetCommunityStats(graph))

NextCommunity ==
    \/ \E c \in AskedIds, n \in 0..MaxTop, scan \in TicketScans, sectionScan \in SectionScans :
          CommunitySummary(c, n, scan, sectionScan)
    \/ \E n \in 0..MaxTop, scan \in TicketScans : TopTicketsPerCommunity(n, scan)
    \/ \E c \in AskedIds, n \in 0..MaxTerms, sectionScan \in SectionScans :
          CommunityText(c, n, sectionScan)
    \/ CommunityStats

SpecCommunity == InitCommunity /\ [][NextCommunity]_vars

----------------------------------------------------------------------------
\* SpecClustering: clustering runs on one database server, with tickets and
\* similarity edges written in between, as one ingest_all after the other
\* does.  queries is the history of the writes.

InitClustering ==
    /\ store = NewStore(2)
    /\ faissFile = <<>>
    /\ metaFile = <<>>
    /\ lastCall = [op |-> "new", status |-> "ok"]
    /\ firstAt = <<>>
    /\ saved = <<>>
    /\ pc = "idle"
    /\ frame = <<>>
    /\ graph \in ClusteringGraphs
    /\ queries = <<>>

Wrote(op) ==
    /\ Len(queries) < MaxWrites
    /\ queries' = Append(queries, op)
    /\ lastCall' = [op |-> op, status |-> "ok"]
    /\ UNCHANGED <<store, firstAt, disk, pc, frame>>

\* run_louvain and run_leiden with write=True.
RunClustering(algorithm) ==
    /\ Wrote(algorithm)
    /\ LET G == EnsureProjection(graph)
       IN  \E f \in Clusterings(G.projection[1]) : graph' = WriteCommunities(G, f)

\* A ticket is ingested.
IngestTicket(t) ==
    /\ Wrote("batch_upsert_tickets")
    /\ graph' = UpsertTickets(graph, {t})

\* A similarity build adds a relationship between two tickets it holds.
AddSimilar(e) ==
    /\ e[1] \in DOMAIN graph.tickets
    /\ e[2] \in DOMAIN graph.tickets
    /\ Wrote("create_similarity_edges")
    /\ graph' = CreateSimilarityEdges(
                    graph, <<[from |-> e[1], to |-> e[2], score |-> 93]>>, "cosine").graph

NextClustering ==
    \/ \E algorithm \in {"run_louvain", "run_leiden"} : RunClustering(algorithm)
    \/ \E i \in 1..MaxTickets : IngestTicket(TicketNames[i])
    \/ \E e \in LaterEdges : AddSimilar(e)

SpecClustering == InitClustering /\ [][NextClustering]_vars

----------------------------------------------------------------------------
\* SpecRebuild: connect_similar_tickets called again on the database of an
\* earlier build, as every ingest_all does, with the embeddings, the
\* threshold and the top_k of the new call.

InitRebuild ==
    /\ store = NewStore(2)
    /\ faissFile = <<>>
    /\ metaFile = <<>>
    /\ lastCall = [op |-> "new", status |-> "ok"]
    /\ firstAt = <<>>
    /\ saved = <<>>
    /\ pc = "connect"
    /\ frame \in RebuildArgs
    /\ graph = GraphOf({"A", "B", "C"})
    /\ queries = <<>>

\* The next ingest_all reaches its step 4.
BuildAgain(args) ==
    /\ pc = "idle"
    /\ Len(queries) < MaxBuilds
    /\ pc' = "connect"
    /\ frame' = args
    /\ UNCHANGED <<store, lastCall, firstAt, disk, graph, queries>>

NextRebuild ==
    \/ ConnectSimilarTickets
    \/ \E args \in RebuildArgs : BuildAgain(args)

SpecRebuild == InitRebuild /\ [][NextRebuild]_vars

----------------------------------------------------------------------------
\* SpecIngest: calls of ingest_csv and ingest_jsonl, each one whole, one
\* after the other on the same database and the same index_path.

InitIngest ==
    /\ store = NewStore(2)
    /\ faissFile = <<>>
    /\ metaFile = <<>>
    /\ lastCall = [op |-> "new", status |-> "ok"]
    /\ firstAt = <<>>
    /\ saved = <<>>
    /\ pc = "idle"
    /\ frame = [driver |-> "none"]
    /\ graph = EmptyGraph
    /\ queries = <<>>

\* The sections of the rows of a file, as extract_sections_from_row gives them.
FileSections(file) ==
    [i \in 1..Len(file) |->
        [id |-> file[i].meta["section_id"], ticket_id |-> file[i].meta["ticket_id"],
         text |-> file[i].text]]

FileTickets(file) == {file[i].meta["ticket_id"] : i \in 1..Len(file)}

\* The call raised at the step at, with the driver as the call left it.
IngestRaised(op, file, at, driver) ==
    /\ lastCall' = [op |-> op, status |-> "raised", file |-> file, at |-> at]
    /\ frame' = [driver |-> driver]

\* ingest_csv / ingest_jsonl on a file that exists.  The database is
\* reachable or not, the embedding model loads or not, the upsert queries
\* succeed or not.
Ingest(op, file, reachable, modelLoads, upsertFails) ==
    /\ pc = "idle"
    /\ LET loaded == LoadCall(NewStore(2), faissFile, metaFile).store
           a == AddArgs(file, "ok")
           added == AddCall(loaded, a.texts, a.emb, a.metas).store
       IN  /\ StoreLen(loaded) + Len(file) <= MaxTotal
           /\ IF ~reachable
              THEN /\ IngestRaised(op, file, "connect", Connect(FALSE))
                   /\ UNCHANGED <<store, disk, graph>>
              ELSE IF ~modelLoads
              THEN /\ IngestRaised(op, file, "embedder", Connect(TRUE))
                   /\ UNCHANGED <<store, disk, graph>>
              ELSE IF upsertFails /\ file # <<>>
              THEN /\ IngestRaised(op, file, "upsert", Exit(Connect(TRUE), TRUE))
                   /\ store' = loaded
                   /\ UNCHANGED <<disk, graph>>
              ELSE /\ graph' = UpsertSections(UpsertTickets(graph, FileTickets(file)),
                                              FileSections(file))
                   /\ store' = added
                   /\ faissFile' = <<WriteIndex(added.index)>>
                   /\ metaFile' = <<Pickle(added)>>
                   /\ saved' = <<added>>
                   /\ frame' = [driver |-> Exit(Connect(TRUE), FALSE)]
                   /\ lastCall' = [op |-> op, status |-> "ok", file |-> file,
                                   at |-> "return"]
    /\ UNCHANGED <<firstAt, pc, queries>>

IngestCsv(file, reachable, modelLoads, upsertFails) ==
    Ingest("ingest_csv", file, reachable, modelLoads, upsertFails)

IngestJsonl(file, reachable, modelLoads, upsertFails) ==
    Ingest("ingest_jsonl", file, reachable, modelLoads, upsertFails)

NextIngest ==
    \/ \E file \in IngestFiles, reachable, modelLoads, upsertFails \in BOOLEAN :
          IngestCsv(file, reachable, modelLoads, upsertFails)
    \/ \E file \in IngestFiles, reachable, modelLoads, upsertFails \in BOOLEAN :
          IngestJsonl(file, reachable, modelLoads, upsertFails)

SpecIngest == InitIngest /\ [][NextIngest]_vars

----------------------------------------------------------------------------
\* SpecSteps: one caller is inside add or persist, statement by statement.
\* Searches of the same store run in between its statements; the process may
\* end at any statement, and the next one starts from a fresh store on the
\* same files, which it may load.

\* add up to index.add (line 101)
AddBegin(a) ==
    /\ pc = "idle"
    /\ Room(store, Len(a.texts))
    /\ LET entry == AddEntry(store, a.texts, a.emb)
           rows == NormalizeRows(a.emb)
       IN  IF entry # "proceed"
           THEN /\ lastCall' = [op |-> "add", status |-> entry]
                /\ UNCHANGED <<store, pc, frame>>
           ELSE /\ store' = AddIndex(store, rows)
                /\ pc' = "add_texts"
                /\ frame' = [texts |-> a.texts, rows |-> rows, metas |-> a.metas]
                /\ UNCHANGED lastCall
    /\ UNCHANGED <<firstAt, disk>>
    /\ UNCHANGED neo4j

\* line 104
AddTextsStep ==
    /\ pc = "add_texts"
    /\ store' = AddTexts(store, frame.texts)
    /\ pc' = "add_vectors"
    /\ UNCHANGED <<lastCall, frame, firstAt, disk>>
    /\ UNCHANGED neo4j

\* line 105
AddVectorsStep ==
    /\ pc = "add_vectors"
    /\ store' = AddVectors(store, frame.rows)
    /\ pc' = "add_metas"
    /\ UNCHANGED <<lastCall, frame, firstAt, disk>>
    /\ UNCHANGED neo4j

\* lines 107-120
AddMetasStep ==
    /\ pc = "add_metas"
    /\ LET r == AddMetas(store, frame.texts, frame.metas)
       IN  /\ store' = r.store
           /\ lastCall' = [op |-> "add", status |-> r.status]
    /\ pc' = "idle"
    /\ frame' = <<>>
    /\ UNCHANGED <<firstAt, disk>>
    /\ UNCHANGED neo4j

\* persist, line 232: faiss.write_index
PersistIndex ==
    /\ pc = "idle"
    /\ faissFile' = <<WriteIndex(store.index)>>
    /\ pc' = "persist_open"
    /\ UNCHANGED <<store, metaFile, saved, lastCall, firstAt, frame>>
    /\ UNCHANGED neo4j

\* persist, line 236: open(meta_file, 'wb')
PersistOpen ==
    /\ pc = "persist_open"
    /\ metaFile' = <<Truncated>>
    /\ pc' = "persist_dump"
    /\ UNCHANGED <<store, faissFile, saved, lastCall, firstAt, frame>>
    /\ UNCHANGED neo4j

\* persist, lines 237-242: pickle.dump, and the file closed
PersistDump ==
    /\ pc = "persist_dump"
    /\ metaFile' = <<Pickle(store)>>
    /\ lastCall' = [op |-> "persist", status |-> "ok"]
    /\ pc' = "idle"
    /\ UNCHANGED <<store, faissFile, saved, firstAt, frame>>
    /\ UNCHANGED neo4j

\* search(query, k) by another caller of the same store
OtherSearch(q) ==
    /\ lastCall' = [op |-> "search", status |-> SearchCall(store, q, MaxK, <<>>).status]
    /\ UNCHANGED <<store, firstAt, disk, pc, frame>>
    /\ UNCHANGED neo4j

StepLoad == pc = "idle" /\ DoLoad /\ UNCHANGED <<firstAt, disk, pc, frame>> /\ UNCHANGED neo4j

StepClear == pc = "idle" /\ DoClear /\ UNCHANGED <<firstAt, disk, pc, frame>> /\ UNCHANGED neo4j

\* The process ends where it is; a new one constructs its store.
Restart(d) ==
    /\ DoNew(d)
    /\ pc' = "idle"
    /\ frame' = <<>>
    /\ UNCHANGED <<firstAt, disk>>
    /\ UNCHANGED neo4j

NextSteps ==
    \/ \E b \in Batches : AddBegin(AddArgs(b, "ok"))
    \/ AddTextsStep
    \/ AddVectorsStep
    \/ AddMetasStep
    \/ PersistIndex
    \/ PersistOpen
    \/ PersistDump
    \/ \E q \in Queries : OtherSearch(q)
    \/ StepLoad
    \/ StepClear
    \/ \E d \in Dims : Restart(d)

SpecSteps == Init /\ [][NextSteps]_vars

----------------------------------------------------------------------------
\* Properties of the store in memory (checked under Spec).

\* C1: in every reachable state the index holds as many vectors as there are
\* metadata entries and as there are texts.
C1_LengthsAgree ==
    /\ StoreLen(store) = Len(store.metadatas)
    /\ StoreLen(store) = Len(store.texts)

CountsDiffer(a) ==
    \/ Len(a.emb) # Len(a.texts)
    \/ a.metas.given /\ Len(a.metas.list) # Len(a.texts)

WidthDiffers(S, a) == Len(a.emb) > 0 /\ Width(a.emb) # S.dimension

\* C2: an add call whose embedding width is not the configured dimension, or
\* whose texts, embeddings and metadatas differ in number, ends in an error and
\* leaves the store exactly as it was.
C2_RejectedWhole ==
    [][\A a \in AddInputs :
          (Add(a) /\ (CountsDiffer(a) \/ WidthDiffers(store, a)))
              => (lastCall'.status # "ok" /\ store' = store)]_vars

LacksText(a, i) == ~a.metas.given \/ ~HasKey(a.metas.list[i], "text")

\* C3: after a successful add, every position i of the batch whose metadata had
\* no 'text' has, at its own offset, metadata whose 'text' is texts[i].
C3_OwnText ==
    [][\A a \in AddInputs :
          (Add(a) /\ lastCall'.status = "ok")
              => \A i \in 1..Len(a.texts) :
                    LacksText(a, i) =>
                        LET off == StoreLen(store) + i
                        IN  /\ off <= Len(store'.metadatas)
                            /\ HasKey(store'.metadatas[off], "text")
                            /\ store'.metadatas[off]["text"] = a.texts[i]]_vars

LastResults == SearchCall(store, lastCall.q, lastCall.k, lastCall.ms).out

\* C4: a search that returns, returns at most min(k, len(store)) results, in
\* order of non-increasing score, none below min_score when one is given, and
\* none at all from an empty index.
C4_SearchBounded ==
    (lastCall.op = "search" /\ lastCall.status = "ok") =>
        LET out == LastResults
        IN  /\ Len(out) <= Min(lastCall.k, StoreLen(store))
            /\ \A i \in 1..Len(out) - 1 : out[i].score >= out[i + 1].score
            /\ lastCall.ms # <<>> =>
                   \A i \in 1..Len(out) : out[i].score >= lastCall.ms[1]
            /\ StoreLen(store) = 0 => out = <<>>

\* A search with min_score that kept two results of different score and
\* dropped nothing for want of k.
C4_Witness ==
    /\ lastCall.op = "search"
    /\ lastCall.status = "ok"
    /\ lastCall.ms # <<>>
    /\ Len(LastResults) = 2
    /\ LastResults[1].score > LastResults[2].score
    /\ LastResults[1].index > LastResults[2].index

\* C5 as claimed: an offset never holds an entry other than the first one it
\* was given, whatever adds and clears happened in between.
C5_NeverReused ==
    \A i \in 1..StoreLen(store) : EntryAt(store, i) = firstAt[i]

IsPrefix(p, q) == Len(p) <= Len(q) /\ SubSeq(q, 1, Len(p)) = p

\* C5 as amended: add only appends (the vectors, texts and metadata already
\* stored keep their positions, new vectors take the next offsets); clear
\* empties the index, so the offsets start again at 0.
C5_AppendOnlyUntilClear ==
    [][/\ lastCall'.op = "add" =>
              /\ IsPrefix(store.index.xb, store'.index.xb)
              /\ IsPrefix(store.texts, store'.texts)
              /\ IsPrefix(store.vectors, store'.vectors)
              /\ IsPrefix(store.metadatas, store'.metadatas)
       /\ lastCall'.op = "clear" => StoreLen(store') = 0]_vars

\* An add onto a non-empty index after a clear: offset 0 holds another entry
\* than the first one it was given, offset 1 is new.
C5_Witness ==
    /\ lastCall.op = "add"
    /\ lastCall.status = "ok"
    /\ StoreLen(store) = 2
    /\ Len(store.metadatas) = 2
    /\ EntryAt(store, 1) # firstAt[1]

\* C12: clear leaves an empty index (length 0, no texts, no metadata, no
\* vectors) of the dimension the index had, and a second clear right after it
\* changes nothing.
C12_ClearIdempotent ==
    [][Clear =>
          /\ StoreLen(store') = 0
          /\ store'.texts = <<>>
          /\ store'.metadatas = <<>>
          /\ store'.vectors = <<>>
          /\ store'.index.d = store.index.d
          /\ store'.dimension = store.dimension
          /\ InitIndex(store') = store']_vars

\* A clear of a store object that held entries.
C12_Witness ==
    /\ lastCall.op = "clear"
    /\ firstAt # <<>>
    /\ StoreLen(store) = 0
    /\ store.dimension = 2

----------------------------------------------------------------------------
\* Properties of the snapshot (checked under SpecSnapshot).

SameSearches(S, T) ==
    \A q \in Queries, k \in 0..MaxK, ms \in MinScores :
        SearchCall(S, q, k, ms) = SearchCall(T, q, k, ms)

\* C6: a store loaded from the snapshot of a persist has the length, texts,
\* metadata and dimension of the store that was persisted, and answers every
\* search with the same entries in the same order.
C6_RoundTrip ==
    (lastCall.op = "load" /\ lastCall.status = "True") =>
        LET S == saved[1]
        IN  /\ StoreLen(store) = StoreLen(S)
            /\ store.texts = S.texts
            /\ store.metadatas = S.metadatas
            /\ store.dimension = S.dimension
            /\ SameSearches(store, S)

\* A loaded store of two entries whose search puts the later entry first.
C6_Witness ==
    /\ lastCall.op = "load"
    /\ lastCall.status = "True"
    /\ StoreLen(store) = 2
    /\ \E q \in Queries :
          LET r == SearchCall(store, q, MaxK, <<>>)
          IN  r.status = "ok" /\ Len(r.out) = 2 /\ r.out[1].index = 1

NoSnapshot == faissFile = <<>> /\ metaFile = <<>>

\* C7 as claimed: load without a snapshot returns False and the index is
\* empty afterwards, whatever the store held before.
C7_EmptyAfterMiss ==
    (lastCall.op = "load" /\ NoSnapshot) =>
        /\ lastCall.status = "False"
        /\ StoreLen(store) = 0
        /\ store.texts = <<>>
        /\ store.metadatas = <<>>

\* C7 as amended: load without a snapshot returns False and leaves the store
\* exactly as it was before the call.
C7_UntouchedAfterMiss ==
    [][(lastCall'.op = "load" /\ NoSnapshot) =>
          (lastCall'.status = "False" /\ store' = store)]_vars

\* A load that found no snapshot, on a store that holds entries.
C7_Witness ==
    /\ lastCall.op = "load"
    /\ lastCall.status = "False"
    /\ NoSnapshot
    /\ StoreLen(store) > 0

----------------------------------------------------------------------------
\* Properties of the shared store and files (checked under SpecSteps).

OneArtifact == (faissFile = <<>>) # (metaFile = <<>>)

\* The two files are not of one persist: the metadata file is cut short, or
\* its vectors are not the vectors of the index file.
Mismatched ==
    /\ faissFile # <<>>
    /\ metaFile # <<>>
    /\ \/ ~metaFile[1].ok
       \/ ReadIndex(faissFile[1]).xb # metaFile[1].vectors
       \/ faissFile[1].d # metaFile[1].dimension

\* C8: a load that finds one file without the other, or two files that are
\* not of the same persist, reports an error that is neither success nor the
\* 'no snapshot' signal, and leaves no store whose vectors and metadata differ
\* in number.
C8_PairChecked ==
    [][(StepLoad /\ (OneArtifact \/ Mismatched)) =>
          /\ lastCall'.status \notin {"True", "False"}
          /\ StoreLen(store') = Len(store'.metadatas)
          /\ StoreLen(store') = Len(store'.texts)]_vars

\* C9: a load that succeeds gives a store whose index holds the vectors that
\* were saved with its texts and metadata, one for each of them.
C9_OneSnapshot ==
    [][(StepLoad /\ lastCall'.status = "True") =>
          /\ store'.index.xb = store'.vectors
          /\ StoreLen(store') = Len(store'.texts)
          /\ StoreLen(store') = Len(store'.metadatas)]_vars

\* C10: no search runs while an add is between its statements, and none sees
\* the index, the texts and the metadata at different lengths.
C10_SearchExcluded ==
    [][\A q \in Queries :
          OtherSearch(q) =>
              /\ pc \notin {"add_texts", "add_vectors", "add_metas"}
              /\ StoreLen(store) = Len(store.texts)
              /\ StoreLen(store) = Len(store.metadatas)]_vars

----------------------------------------------------------------------------
\* Properties of the stored vectors (checked under SpecNorm).

UnitNorm(v) == Norm(v) = One

\* C11: every vector the store holds, in the index and in its list of
\* vectors, has L2 norm 1, whatever the norms of the rows handed to add.
C11_UnitNorm ==
    /\ \A i \in 1..StoreLen(store) : UnitNorm(store.index.xb[i])
    /\ \A i \in 1..Len(store.vectors) : UnitNorm(store.vectors[i])

----------------------------------------------------------------------------
\* Properties of the similarity edges (checked under SpecSimilar).

Connected == lastCall.op = "connect_similar_tickets"

\* The edges of the emitted list whose source is the i-th ticket.
EdgesOf(i) ==
    LET mine(e) == e.from = frame.emb[i].id
    IN  SelectSeq(lastCall.out, mine)

\* The positions of the neighbours of i that qualify: another ticket, whose
\* cosine with i is at least the threshold.
Qualifying(i) ==
    {j \in 1..Len(frame.emb) :
        j # i /\ Qualifies(Cosine(frame.emb[i].vec, frame.emb[j].vec), frame.threshold)}

PositionOf(id) == CHOOSE j \in 1..Len(frame.emb) : frame.emb[j].id = id

\* The positions of the tickets the emitted edges of i lead to.
KeptOf(i) == {PositionOf(EdgesOf(i)[n].to) : n \in 1..Len(EdgesOf(i))}

ScoreOf(i, j) == Cosine(frame.emb[i].vec, frame.emb[j].vec)

EdgeListOk ==
    /\ \A n \in 1..Len(lastCall.out) :
          /\ lastCall.out[n].from # lastCall.out[n].to
          /\ lastCall.out[n].score >= frame.threshold
    /\ \A i \in 1..Len(frame.emb) :
          LET mine == EdgesOf(i)
              kept == KeptOf(i)
              cand == Qualifying(i)
              score == [j \in cand |-> ScoreOf(i, j)]
          IN  /\ Len(mine) <= frame.top_k
              /\ Cardinality(kept) = Len(mine)
              /\ kept \subseteq cand
              /\ \A n \in 1..Len(mine) : mine[n].score = score[PositionOf(mine[n].to)]
              /\ Len(mine) = Min(frame.top_k, Cardinality(cand))
              /\ \A out \in cand \ kept, in \in kept : score[out] <= score[in]

\* C13: for every mapping, threshold and top_k, every emitted edge joins two
\* different tickets and scores at least the threshold, each source has at
\* most top_k edges, and they are the top_k highest scoring of its qualifying
\* neighbours: no qualifying neighbour left out scores higher than one kept.
C13_TopKOfQualifying == Connected => EdgeListOk

\* A source with two qualifying neighbours of different scores and top_k 1:
\* the one kept is the later key, which scores higher.
C13_Witness ==
    /\ Connected
    /\ frame.top_k = 1
    /\ \E i \in 1..Len(frame.emb) :
          /\ Cardinality(Qualifying(i)) = 2
          /\ \E j \in KeptOf(i), l \in Qualifying(i) \ KeptOf(i) :
                j > l /\ ScoreOf(i, j) > ScoreOf(i, l)

\* The worked example: A = [1, 0], B = [0.99, 0.14], C = [0, 1].
ExampleEmbeddings ==
    <<[id |-> "A", vec |-> <<100, 0>>], [id |-> "B", vec |-> <<99, 14>>],
      [id |-> "C", vec |-> <<0, 100>>]>>

Emitted(from, to) ==
    \E n \in 1..Len(lastCall.out) : lastCall.out[n].from = from /\ lastCall.out[n].to = to

\* C14: the edge i -> j is emitted, once, exactly when j is among the
\* neighbours kept in i's own pass, whether or not j -> i is emitted, and the
\* database holds it as a relationship of its own direction; for the worked
\* example with threshold 0.5 and top_k 1 the emitted edges are A -> B and
\* B -> A.
C14_PerSourceDirected ==
    Connected =>
        /\ \A i, j \in 1..Len(frame.emb) :
              LET from == frame.emb[i].id
                  to == frame.emb[j].id
                  kept == PySlice(SortDesc(ScoresFrom(frame.emb, i, frame.threshold, 1)),
                                  frame.top_k)
                  among == \E n \in 1..Len(kept) : kept[n].id = to
                  hits(e) == e.from = from /\ e.to = to
              IN  /\ Emitted(from, to) <=> among
                  /\ Len(SelectSeq(lastCall.out, hits)) <= 1
                  /\ (Emitted(from, to) /\ {from, to} \subseteq DOMAIN graph.tickets)
                         => <<from, to>> \in DOMAIN graph.similar
                  /\ ~Emitted(from, to) => <<from, to>> \notin DOMAIN graph.similar
        /\ (frame.emb = ExampleEmbeddings /\ frame.threshold = 50 /\ frame.top_k = 1)
              => /\ Len(lastCall.out) = 2
                 /\ Emitted("A", "B")
                 /\ Emitted("B", "A")

\* An unordered pair with one directed edge and not the other, next to a
\* pair with both.
C14_Witness ==
    /\ Connected
    /\ \E a, b \in DOMAIN graph.tickets :
          <<a, b>> \in DOMAIN graph.similar /\ <<b, a>> \notin DOMAIN graph.similar
    /\ \E a, b \in DOMAIN graph.tickets :
          <<a, b>> \in DOMAIN graph.similar /\ <<b, a>> \in DOMAIN graph.similar

----------------------------------------------------------------------------
\* Properties of the retrieval pipeline (checked under SpecRetrieve).

\* The call in progress, or the one that returned last, went through stage.
Did(stage) == \E n \in 1..Len(frame.stages) : frame.stages[n] = stage

IndexMissingOrEmpty ==
    \/ faissFile = <<>>
    \/ metaFile = <<>>
    \/ faissFile[1].ntotal = 0

\* C15: a call that starts from a missing or an empty index runs no search
\* and no graph query, and returns the StoreUnavailable error.
C15_StoreUnavailableFirst ==
    IndexMissingOrEmpty =>
        /\ queries = <<>>
        /\ ~Did("search")
        /\ Returned => lastCall.out.error = <<StoreUnavailable>>

\* The part of C15 about the graph alone.
NoGraphQueryWithoutIndex == IndexMissingOrEmpty => queries = <<>>

\* C16: a seed search that returns no section ends the call with NoEvidence,
\* with no later stage and no graph query; a call whose seed search returned
\* a section does not report NoEvidence.
C16_NoEvidenceStops ==
    /\ (Did("search") /\ frame.sections = <<>>) =>
          /\ Returned
          /\ frame.stages = <<"load", "search">>
          /\ queries = <<>>
          /\ lastCall.out.error = <<NoEvidence>>
    /\ (Returned /\ frame.sections # <<>>) => lastCall.out.error # <<NoEvidence>>

\* A call that returned NoEvidence after its seed search.
C16_Witness ==
    /\ Returned
    /\ Did("search")
    /\ frame.sections = <<>>
    /\ lastCall.out.error = <<NoEvidence>>

\* The ticket ids of the sections, each at its first appearance.
RECURSIVE FirstAppearance(_, _)
FirstAppearance(sections, seen) ==
    IF sections = <<>> THEN <<>>
    ELSE LET m == Head(sections).metadata
         IN  IF HasKey(m, "ticket_id") /\ m["ticket_id"] \notin seen
             THEN <<m["ticket_id"]>> \o FirstAppearance(Tail(sections), seen \cup {m["ticket_id"]})
             ELSE FirstAppearance(Tail(sections), seen)

\* C17: the seed ticket ids are the parent tickets of the matched sections,
\* each once, in the order of first appearance in the search results, in
\* provenance.ticket_ids and in graph_context.seed_tickets alike.
C17_FirstAppearanceOrder ==
    /\ Did("extract") => frame.ticket_ids = FirstAppearance(frame.sections, {})
    /\ (Returned /\ lastCall.status = "ok") =>
          /\ lastCall.out.provenance.ticket_ids = FirstAppearance(lastCall.out.sections, {})
          /\ lastCall.out.graph_context.seed_tickets = FirstAppearance(lastCall.out.sections, {})

\* C18: a call that returns after an earlier call on the same snapshot, the
\* same query and the same database returns the provenance the earlier one
\* returned.
C18_SameProvenance ==
    (Returned /\ frame.prev # <<>>) =>
        lastCall.out.provenance = frame.prev[1].provenance

\* The outgoing SIMILAR_TO relationships of t that score at least the
\* threshold of the call.
QualifyingEdges(t) ==
    {e \in DOMAIN graph.similar :
        e[1] = t /\ graph.similar[e].score >= frame.args.similarity_threshold}

RECURSIVE SumDegrees(_)
SumDegrees(tops) == IF tops = <<>> THEN 0 ELSE Head(tops).degree + SumDegrees(Tail(tops))

\* C19: the degree reported for a seed ticket is the number of its outgoing
\* SIMILAR_TO edges with score >= similarity_threshold, at most
\* max_similar_tickets, 0 when it has none; num_relationships is their sum.
C19_DegreeCountsEdges ==
    (Returned /\ lastCall.status = "ok") =>
        LET gc == lastCall.out.graph_context
        IN  /\ \A n \in 1..Len(gc.top_tickets) :
                  gc.top_tickets[n].degree =
                      Min(frame.args.max_similar_tickets,
                          Cardinality(QualifyingEdges(gc.top_tickets[n].id)))
            /\ gc.num_relationships = SumDegrees(gc.top_tickets)

\* The scores of the matched sections of ticket t.
SectionScores(sections, t) ==
    {sections[n].score :
        n \in {m \in 1..Len(sections) :
                  HasKey(sections[m].metadata, "ticket_id")
                      /\ sections[m].metadata["ticket_id"] = t}}

\* C20: the score of a ticket node of the subgraph is the highest score among
\* the matched sections of that ticket.
C20_ScoreIsMaxSection ==
    (Returned /\ frame.subgraph # <<>> /\ frame.subgraph[1].status = "ok") =>
        \A t \in DOMAIN frame.subgraph[1].ticket_nodes :
            LET scores == SectionScores(lastCall.out.sections, t)
                score == frame.subgraph[1].ticket_nodes[t].score
            IN  /\ score \in scores
                /\ \A x \in scores : x <= score

\* The ids of the communities a result summarizes.
Summarized(out) ==
    {out.community_context[n].community_id : n \in 1..Len(out.community_context)}

Listed(out) ==
    {out.provenance.community_ids[n] : n \in 1..Len(out.provenance.community_ids)}

\* The part of C21 about the enrichment alone: a call that reached the cluster
\* enrichment returns a result, whatever summary raised, and the result
\* summarizes the touched communities whose summary did not raise, and no
\* other.
SummaryFailureIsolated ==
    (Finished /\ Did("communities")) =>
        /\ lastCall.status = "ok"
        /\ Summarized(lastCall.out) = Communities(frame.results) \ frame.failed

\* C21: a failing summary of one touched community does not fail the call,
\* every other touched community is summarized, and the failed community is
\* in neither community_context nor the community list and count of the
\* provenance.
C21_FailedClusterDropped ==
    (Finished /\ Did("communities")) =>
        /\ lastCall.status = "ok"
        /\ Summarized(lastCall.out) = Communities(frame.results) \ frame.failed
        /\ Listed(lastCall.out) = Communities(frame.results) \ frame.failed
        /\ lastCall.out.provenance.num_communities =
              Cardinality(Communities(frame.results) \ frame.failed)

\* The call could not reach the database, or its expansion query failed.
GraphFailed == Finished /\ frame.fault # "none"

\* C22: a call whose database is unreachable or whose expansion query fails
\* returns no result: it raises, which no returned result is, so the caller
\* can tell it from NoEvidence and from StoreUnavailable; and a call that
\* reports NoEvidence did not attempt the graph.
C22_GraphFailureRaises ==
    /\ GraphFailed =>
          /\ Raised
          /\ lastCall.out \notin {ErrorResult(NoEvidence), ErrorResult(StoreUnavailable)}
          /\ "sections" \notin DOMAIN lastCall.out
    /\ (Returned /\ lastCall.out.error = <<NoEvidence>>) => ~Did("connect")
    /\ (Finished /\ Did("connect") /\ ~GraphFailed) => lastCall.status = "ok"

\* A call that raised out of a failing expansion query after a seed search
\* that found sections.
C22_Witness ==
    /\ Raised
    /\ Did("expand")
    /\ frame.sections # <<>>
    /\ frame.driver = "closed"

\* C27: when a call of retrieve_graph_context is over, by a return or by an
\* exception out of the expansion query, with or without a failing community
\* summary, the driver it connected is closed and no session of it is open.
C27_HandlesReleased ==
    Finished =>
        /\ frame.driver # "open"
        /\ frame.sessions = 0
        /\ Did("expand") => frame.driver = "closed"

\* Calls over on each of the three paths: the expansion query raised; a
\* community summary raised; nothing raised.
C27_Witness ==
    /\ Raised
    /\ Did("expand")
    /\ frame.driver = "closed"
    /\ frame.sessions = 0

C27_WitnessSummary ==
    /\ Returned
    /\ frame.failed # {}
    /\ frame.driver = "closed"

----------------------------------------------------------------------------
\* Properties of the CommunityDetector (checked under SpecCommunity).

\* t comes before u among the representatives: more relationships, or as
\* many and the lesser id.
Outranks(G, t, u) ==
    \/ Degree(G, t) > Degree(G, u)
    \/ Degree(G, t) = Degree(G, u) /\ TicketIndex(t) <= TicketIndex(u)

\* The tickets of S by degree descending, ties by id ascending.
RECURSIVE Ranked(_, _)
Ranked(G, S) ==
    IF S = {} THEN <<>>
    ELSE LET first == CHOOSE t \in S : \A u \in S : Outranks(G, t, u)
         IN  <<first>> \o Ranked(G, S \ {first})

FirstRanked(G, c, n) ==
    LET all == Ranked(G, Members(G, c))
    IN  SubSeq(all, 1, Min(n, Len(all)))

IdsOf(rows) == [n \in 1..Len(rows) |-> rows[n].id]

\* What holds of the representatives whatever the database does with ties:
\* at most top_n distinct members of the community, each with its degree, in
\* an order of descending degree.
RepresentativesByDegree ==
    lastCall.op = "generate_community_summary" =>
        LET top == lastCall.out.top_tickets
        IN  /\ Len(top) <= lastCall.args.top_n
            /\ \A n \in 1..Len(top) :
                  /\ top[n].id \in Members(graph, lastCall.args.community_id)
                  /\ top[n].degree = Degree(graph, top[n].id)
            /\ \A n, m \in 1..Len(top) :
                  n < m => top[n].degree >= top[m].degree /\ top[n].id # top[m].id

\* C23: the representatives of a community are its first n members by degree
\* descending, ties by ticket id ascending, whatever order the database
\* scans its nodes in.
C23_RankedByDegreeThenId ==
    /\ lastCall.op = "generate_community_summary" =>
          IdsOf(lastCall.out.top_tickets) =
              FirstRanked(graph, lastCall.args.community_id, lastCall.args.top_n)
    /\ lastCall.op = "get_top_tickets_per_community" =>
          \A c \in DOMAIN lastCall.out :
              IdsOf(lastCall.out[c]) = FirstRanked(graph, c, lastCall.args.top_n)

\* The text the terms of the last analysis were taken from.
AnalyzedText ==
    LET member(x) == x \in CommunitySections(graph, lastCall.args.community_id)
        rows == SelectSeq(lastCall.args.sectionScan, member)
    IN  Lower(Join([n \in 1..Len(rows) |-> graph.sections[rows[n]].text]))

\* w stands at position p of text as a whole word.
WordAt(text, w, p) ==
    /\ p + Len(w) - 1 <= Len(text)
    /\ SubSeq(text, p, p + Len(w) - 1) = w
    /\ p > 1 => ~IsWordChar(text[p - 1])
    /\ p + Len(w) <= Len(text) => ~IsWordChar(text[p + Len(w)])

Occurrences(text, w) == {p \in 1..Len(text) : WordAt(text, w, p)}

FirstSeen(text, w) == CHOOSE p \in Occurrences(text, w) : \A q \in Occurrences(text, w) : p <= q

\* w is ranked before v: more occurrences, or as many and seen first.
Before(text, w, v) ==
    \/ Cardinality(Occurrences(text, w)) > Cardinality(Occurrences(text, v))
    \/ /\ Cardinality(Occurrences(text, w)) = Cardinality(Occurrences(text, v))
       /\ FirstSeen(text, w) < FirstSeen(text, v)

\* A token the analysis counts: lowercase letters, three or more, no stop word.
Countable(w) ==
    /\ Len(w) >= 3
    /\ \A i \in 1..Len(w) : IsLetter(w[i])
    /\ w \notin StopWords

Login == <<"l", "o", "g", "i", "n">>

Failure == <<"f", "a", "i", "l", "u", "r", "e">>

\* The sections of the analysed community are the three of the example.
ExampleSections ==
    {graph.sections[x].text : x \in CommunitySections(graph, lastCall.args.community_id)}
        = {LoginTimeout, LoginRetry, Unrelated}

\* C24: the frequent terms of a community are at most top_terms tokens, each
\* of lowercase letters, three or more, no stop word, a word of the text of a
\* section of a member; by occurrences descending, ties in the order first
\* seen; no token left out ranks before one returned; for the sections
\* 'login failure timeout', 'login failure retry', 'unrelated crash' and
\* top_terms 3 the first two are 'login' and 'failure'.
C24_TermsByFrequency ==
    lastCall.op = "analyze_community_text" =>
        LET out == lastCall.out
            text == AnalyzedText
            runs == WordRuns(text, <<>>)
        IN  /\ Len(out) <= lastCall.args.top_terms
            /\ \A n \in 1..Len(out) :
                  /\ Countable(out[n])
                  /\ \E x \in CommunitySections(graph, lastCall.args.community_id) :
                        Occurrences(Lower(graph.sections[x].text), out[n]) # {}
            /\ \A n, m \in 1..Len(out) : n < m => Before(text, out[n], out[m])
            /\ \A i \in 1..Len(runs) :
                  (Countable(runs[i]) /\ \A n \in 1..Len(out) : out[n] # runs[i]) =>
                      /\ Len(out) = lastCall.args.top_terms
                      /\ \A n \in 1..Len(out) : Before(text, out[n], runs[i])
            /\ (ExampleSections /\ lastCall.args.top_terms = 3) =>
                  /\ Len(out) = 3
                  /\ {out[1], out[2]} = {Login, Failure}

\* The terms of the example, asked for with the sections in the order in
\* which 'unrelated crash' comes first.
C24_Witness ==
    /\ lastCall.op = "analyze_community_text"
    /\ ExampleSections
    /\ lastCall.args.top_terms = 3
    /\ lastCall.args.sectionScan # SectionNames
    /\ lastCall.out[1] = Login
    /\ lastCall.out[2] = Failure

\* Terms taken from a text in mixed case with a stop word, a short word and a
\* word with digits.
C24_WitnessMixed ==
    /\ lastCall.op = "analyze_community_text"
    /\ \E x \in CommunitySections(graph, lastCall.args.community_id) :
          graph.sections[x].text = MixedCase
    /\ Len(lastCall.out) = 3

Assigned == {t \in DOMAIN graph.tickets : graph.tickets[t].communityId # <<>>}

\* C25: the statistics give for every community id the number of tickets that
\* carry it; the number of communities, the total, the average (to a
\* hundredth), the largest and the smallest size agree with those sizes; with
\* no ticket assigned they are all zero, and the call returns.
C25_StatsOfSizes ==
    lastCall.op = "get_community_stats" =>
        LET out == lastCall.out
            ids == {graph.tickets[t].communityId[1] : t \in Assigned}
        IN  /\ lastCall.status = "ok"
            /\ DOMAIN out.sizes = ids
            /\ \A c \in ids :
                  out.sizes[c] = Cardinality({t \in Assigned : graph.tickets[t].communityId = <<c>>})
            /\ out.num_communities = Cardinality(ids)
            /\ out.total_nodes = Cardinality(Assigned)
            /\ ids # {} =>
                  /\ out.avg_size * out.num_communities <= out.total_nodes * Cent
                  /\ (out.avg_size + 1) * out.num_communities > out.total_nodes * Cent
                  /\ \E c \in ids : out.sizes[c] = out.largest_size
                  /\ \E c \in ids : out.sizes[c] = out.smallest_size
                  /\ \A c \in ids : out.smallest_size <= out.sizes[c] /\ out.sizes[c] <= out.largest_size
            /\ ids = {} =>
                  /\ out.num_communities = 0
                  /\ out.total_nodes = 0
                  /\ out.avg_size = 0
                  /\ out.largest_size = 0
                  /\ out.smallest_size = 0

\* The statistics of a database whose tickets carry no community.
C25_Witness ==
    /\ lastCall.op = "get_community_stats"
    /\ DOMAIN graph.tickets # {}
    /\ Assigned = {}
    /\ lastCall.out.num_communities = 0

\* The statistics of two communities of different sizes.
C25_WitnessSizes ==
    /\ lastCall.op = "get_community_stats"
    /\ lastCall.out.num_communities = 2
    /\ lastCall.out.largest_size > lastCall.out.smallest_size

----------------------------------------------------------------------------
\* Properties of the clustering runs (checked under SpecClustering).

RanClustering == lastCall.op \in {"run_louvain", "run_leiden"}

\* C26: after a clustering run that writes, the community ids are a
\* clustering of the tickets and the similarity edges the database holds at
\* that time: every ticket carries one, and the tickets of one community are
\* held together by edges of the database.
C26_ReflectsGraphAtRun ==
    RanClustering =>
        \E f \in Clusterings(Project(graph)) :
            \A t \in DOMAIN graph.tickets :
                graph.tickets[t].communityId = <<TicketIndex(f[t])>>

\* The first run on a server, whose catalog holds no projection, does.
FirstRunReflectsGraph ==
    (RanClustering /\ Len(queries) = 1) =>
        \E f \in Clusterings(Project(graph)) :
            \A t \in DOMAIN graph.tickets :
                graph.tickets[t].communityId = <<TicketIndex(f[t])>>

----------------------------------------------------------------------------
\* Properties of repeated similarity builds (checked under SpecRebuild).

\* The relationships the last build emitted.
LastEmitted == {<<lastCall.out[n].from, lastCall.out[n].to>> : n \in 1..Len(lastCall.out)}

\* C28: after every build the SIMILAR_TO relationships of the database are
\* the ones the latest build emitted: no source has more than top_k of them
\* and none scores below the threshold of the latest build.
C28_EdgesOfLatestBuild ==
    (pc = "idle" /\ Connected) =>
        /\ DOMAIN graph.similar = LastEmitted
        /\ \A t \in DOMAIN graph.tickets :
              Cardinality({e \in DOMAIN graph.similar : e[1] = t}) <= frame.top_k
        /\ \A e \in DOMAIN graph.similar : graph.similar[e].score >= frame.threshold

\* The first build on a database without relationships leaves its own.
FirstBuildExact ==
    (pc = "idle" /\ Connected /\ Len(queries) = 1) => DOMAIN graph.similar = LastEmitted

\* Every relationship the latest build emitted is stored with its new score.
LatestEdgesStored ==
    (pc = "idle" /\ Connected) =>
        \A n \in 1..Len(lastCall.out) :
            LET e == lastCall.out[n]
            IN  /\ <<e.from, e.to>> \in DOMAIN graph.similar
                /\ graph.similar[<<e.from, e.to>>].score = e.score

----------------------------------------------------------------------------
\* Properties of the ingestors (checked under SpecIngest).

Ingested == lastCall.op \in IngestOps /\ lastCall.status = "ok"

\* The section ids of the entries of the persisted index, entry by entry.
IndexedSections ==
    IF metaFile = <<>> THEN <<>>
    ELSE [i \in 1..Len(metaFile[1].metadatas) |-> metaFile[1].metadatas[i]["section_id"]]

\* C29: after every ingest the persisted index holds one entry for each
\* section id, and the section ids of the index are those of the graph; an
\* ingest of the file ingested last leaves the tickets and the sections of
\* the graph as they are.
C29_OneEntryPerSection ==
    Ingested =>
        /\ \A i, j \in 1..Len(IndexedSections) :
              i # j => IndexedSections[i] # IndexedSections[j]
        /\ {IndexedSections[i] : i \in 1..Len(IndexedSections)} = DOMAIN graph.sections
        /\ faissFile[1].ntotal = Cardinality(DOMAIN graph.sections)

\* The part of C29 about the graph: ingesting the file of the last ingest
\* again changes neither tickets nor sections.
GraphIdempotent ==
    [][(Ingested /\ lastCall'.status = "ok" /\ lastCall'.file = lastCall.file)
          => graph' = graph]_vars

\* The first ingest into an empty index and an empty database agrees.
FirstIngestAgrees ==
    (Ingested /\ faissFile[1].ntotal = Len(lastCall.file)) =>
        {IndexedSections[i] : i \in 1..Len(IndexedSections)} = DOMAIN graph.sections

\* C30: an ingestor whose graph.connect() succeeded has closed the connection
\* when it returns and when it raises.
C30_ClosedOnEveryExit ==
    (lastCall.op \in IngestOps /\ lastCall.at # "connect") => frame.driver = "closed"

\* The part of C30 about the try block: closed on return and on an exception
\* of the upserts.
ClosedAfterTry ==
    (lastCall.op \in IngestOps /\ lastCall.at \in {"return", "upsert"}) =>
        frame.driver = "closed"

====
